---- MODULE Spec2Model ----
(***************************************************************************)
(* Verification model of the forum image loader: the download engine      *)
(* (ImageDownloader, HostLimiter), the persistent state store             *)
(* (LinkRepository) and the Orchestrator that drives them.                 *)
(*                                                                         *)
(* The specifications share the variables below:                           *)
(*   Spec        a session that ingests one block from an HTML file and    *)
(*               downloads its links as one batch under the two gates; the *)
(*               process can crash and be restarted (recovery pass);       *)
(*   SpecRecover the recovery pass over any state a crash leaves behind;   *)
(*   SpecIngest  repeated ingestion of the same HTML (process_html);        *)
(*   SpecImage   the attempt loop of download_image for one link;           *)
(*   SpecStore   calls of the LinkRepository on one block;                  *)
(*   SpecCrawl   crawl sessions over the pages of a topic (process_url);    *)
(*   SpecPaths   the tasks of one batch over one output directory;         *)
(*   SpecUpdate  update_link_status on whole rows of table links;          *)
(*   SpecNumbering  process_html in a process that runs to its end;        *)
(*   SpecBatch   the batch of Spec in a process that is not killed, and    *)
(*               SpecBatchFair, SpecImageFair, SpecSessionFair: a batch,   *)
(*               a download_image call and a crawl session under weak      *)
(*               fairness of their steps.                                  *)
(* A specification leaves the variables of the others unchanged.           *)
(***************************************************************************)
EXTENDS Integers, Sequences, FiniteSets, TLC

VARIABLES
    \* ---- ImageDownloader / HostLimiter (one batch) ----
    global_limit,     \* ImageDownloader.global_limit
    per_host_limit,   \* HostLimiter.per_host_limit
    hostOf,           \* link -> urlparse(link.url).hostname or "default"
    global_value,     \* free slots of ImageDownloader.global_semaphore
    locks,            \* HostLimiter._locks: hostname -> free slots (lazily created)
    pc,               \* position of each link's download_link task
    result,           \* how each task ended: "none", "ok" (returned), "exc" (raised)
    calls,            \* statuses the status callback was invoked with, per link
    batch_pc,         \* download_links: "none", "gathering", "returned"
    mem_status,       \* link.status of the link objects handed to download_links
    stats,            \* the statistics download_links returned
    \* ---- LinkRepository (persisted) ----
    status,           \* links.status per link row ("none" = no row yet)
    pages,            \* pages.status per page number ("none" = no row yet)
    \* ---- Orchestrator session ----
    proc,             \* the process: "running", "crashed", "recovering", "recovered"
    orch_pc,          \* process_block: "idle", "registered", "exported"
    \* ---- history ----
    crashed_status,   \* links.status as the last crash left it
    crashed_pages,    \* pages.status as the last crash left it
    \* ---- download_image for one link (SpecImage) ----
    max_retries,      \* ImageDownloader.max_retries
    resource,         \* the bytes the server holds for link.url
    part,             \* contents of <output_path>.part
    part_exists,      \* whether <output_path>.part exists
    final,            \* contents of output_path, NoFile when there is no file
    resume_from,      \* download_image: resume_from
    attempt,          \* download_image: attempt
    backoff,          \* download_image: backoff (seconds)
    link_size,        \* link.size (0 = None)
    stream_pos,       \* bytes of the resource the open response has delivered up to
    img_pc,           \* download_image: "entry", "request", "streaming", "returned"
    img_ret,          \* what download_image returned ("none" while it runs)
    n_requests,       \* session.get calls made
    n_sleeps,         \* asyncio.sleep calls made
    last_sleep,       \* the last asyncio.sleep: kind, ticks, and the retry it precedes
    last_response,    \* history: how the last request was answered or its attempt failed
    part0,            \* history: the .part file as download_image found it
    \* ---- Orchestrator.process_html over the store and the output tree ----
    html,             \* the blocks extract_blocks finds in the HTML, in order
    img_dirs,         \* directories under output/img
    links_dirs,       \* directories under output/links
    exported,         \* the files under output/links, by numbered slug
    block_rows,       \* table blocks: rows [block_id, slug]
    link_rows,        \* table links: its rows in the order of their ids
    ingest_pc,        \* position of process_html / process_block
    ingest_idx,       \* index in html of the block being processed
    numbered_slug,    \* process_block's numbered_slug
    counts_after,     \* history: row counts at each return of process_html
    n_kills,          \* history: how often the process was killed mid-ingestion
    pending_at_kill,  \* history: ids of the links QUEUED or DOWNLOADING at a kill
    \* ---- calls of the LinkRepository on one block ----
    call,             \* history: the last call, its arguments and the row count before
    \* ---- Orchestrator.process_url: the crawl over the pages ----
    page_param,       \* PaginationManager.page_param
    posts_per_page,   \* PaginationManager.posts_per_page
    max_pages,        \* process_url's max_pages, 0 for None
    crawl_pc,         \* position of process_url
    current_page_num, \* process_url's current_page_num
    pages_processed,  \* process_url's pages_processed
    page_url,         \* process_url's page_url
    pagination_links, \* the hrefs find_pagination_links found on the page
    fetched,          \* history: the page numbers the session asked the fetcher for
    n_sessions,       \* history: how many crawl sessions were started
    \* ---- download_link for the links of one batch over one output directory ----
    link_url,         \* link.url of each link of the batch
    dir_entries,      \* output_dir: file name -> inode (0 = no such file)
    inode_bytes,      \* the contents of the inodes created so far
    dl_pc,            \* position of each link's download_link task
    dl_status,        \* links.status of each link, as the status callback set it
    dl_resume,        \* download_image: resume_from, per task
    dl_handle,        \* the inode the task's open file object writes to (0 = none)
    dl_pos            \* bytes of the resource the task's response has delivered up to

imageVars == <<max_retries, resource, part, part_exists, final, resume_from, attempt,
               backoff, link_size, stream_pos, img_pc, img_ret, n_requests, n_sleeps,
               last_sleep, last_response, part0>>

ingestVars == <<html, img_dirs, links_dirs, exported, block_rows, link_rows,
                ingest_pc, ingest_idx, numbered_slug, counts_after, n_kills,
                pending_at_kill>>

storeVars == <<call>>

crawlVars == <<page_param, posts_per_page, max_pages, crawl_pc, current_page_num,
               pages_processed, page_url, pagination_links, fetched, n_sessions>>

pathVars == <<link_url, dir_entries, inode_bytes, dl_pc, dl_status, dl_resume,
              dl_handle, dl_pos>>

vars == <<global_limit, per_host_limit, hostOf, global_value, locks, pc, result,
          calls, batch_pc, mem_status, stats, status, pages, proc, orch_pc, crashed_status,
          crashed_pages, imageVars, ingestVars, storeVars, pathVars, crawlVars>>

(***************************************************************************)
(* Bounds of the model.                                                    *)
(***************************************************************************)
NumLinks == 3        \* links of the block that is downloaded
MaxLimit == 2        \* limits range over 1..MaxLimit
NumPages == 3        \* page numbers 0..NumPages-1 exist on the forum

Links == 1..NumLinks
PageNums == 0..(NumPages - 1)

\* urlparse(url).hostname or "default": the buckets a URL can fall in
Hosts == {"img.host", "default"}

\* LinkStatus values as persisted (link.status.value)
NEW_ == "new"     \* LinkStatus.NEW (NEW is a reserved word)
QUEUED == "queued"
DOWNLOADING == "downloading"
DONE == "done"
FAILED == "failed"
SKIPPED == "skipped"
LinkStatus == {NEW_, QUEUED, DOWNLOADING, DONE, FAILED, SKIPPED}

(***************************************************************************)
(* LinkRepository                                                          *)
(***************************************************************************)
\* add_links for rows not yet present: each row is inserted with the status
\* process_block gave the link (QUEUED); commit once at the end.
add_links(st, ls) ==
    [l \in Links |-> IF l \in ls /\ st[l] = "none" THEN QUEUED ELSE st[l]]

\* update_link_status: UPDATE links SET status = ? ... WHERE id = ?
update_link_status(st, link_id, new_status) ==
    [st EXCEPT ![link_id] = new_status]

\* variant: the pass also re-queues the links that failed
recover_downloading_links_AlsoFailed(st) ==
    [l \in Links |-> IF st[l] \in {DOWNLOADING, FAILED} THEN QUEUED ELSE st[l]]

\* recover_downloading_links: UPDATE links SET status='queued' WHERE status='downloading'
recover_downloading_links(st) ==
    [l \in Links |-> IF st[l] = DOWNLOADING THEN QUEUED ELSE st[l]]

\* variant: the two status parameters of the UPDATE are swapped
recover_processing_pages_Swapped(pg) ==
    [n \in PageNums |-> IF pg[n] = "new" THEN "processing" ELSE pg[n]]

\* recover_processing_pages: UPDATE pages SET status='new' WHERE status='processing'
recover_processing_pages(pg) ==
    [n \in PageNums |-> IF pg[n] = "processing" THEN "new" ELSE pg[n]]

\* create_page: INSERT; an existing row (IntegrityError) is left as it is
create_page(pg, n) ==
    IF pg[n] = "none" THEN [pg EXCEPT ![n] = "new"] ELSE pg

\* update_page_status: UPDATE pages SET status = ? WHERE url = ?
update_page_status(pg, n, new_status) ==
    IF pg[n] = "none" THEN pg ELSE [pg EXCEPT ![n] = new_status]

(***************************************************************************)
(* HostLimiter and the global gate                                         *)
(***************************************************************************)
\* variant: the gate is created one slot too wide
NewHostSemaphore_OffByOne == per_host_limit + 1

\* defaultdict(lambda: asyncio.Semaphore(self.per_host_limit))
NewHostSemaphore == per_host_limit

\* variant: every lookup puts a new gate in the place of the host's gate
LocksAfterAccess_Fresh(h) ==
    [x \in (DOMAIN locks) \cup {h} |-> IF x = h THEN NewHostSemaphore ELSE locks[x]]

\* self._locks[hostname]: the gate of a host, created on first access
LocksAfterAccess(h) ==
    IF h \in DOMAIN locks THEN locks
    ELSE [x \in (DOMAIN locks) \cup {h} |->
            IF x = h THEN NewHostSemaphore ELSE locks[x]]

\* asyncio.Semaphore: acquire proceeds only while the counter is positive
HostFree(h) == h \in DOMAIN locks /\ locks[h] > 0
GlobalFree == global_value > 0

\* variant: leaving the host's gate gives the slot back to nobody
ReleaseHost_Lost(lk, h) == lk

\* semaphore.release() of a host's gate
ReleaseHost(lk, h) == [lk EXCEPT ![h] = @ + 1]

\* tasks inside "async with self.global_semaphore"
GlobalHolders == {l \in Links : pc[l] \in {"waitHost", "downloading"}}

\* tasks inside "async with self.host_limiter.limit(link.url)" for host h
HostHolders(h) ==
    {l \in Links : hostOf[l] = h /\ pc[l] = "downloading"}

(***************************************************************************)
(* Orchestrator.process_html / process_block for the block of the file     *)
(***************************************************************************)
batchVars == <<global_value, locks, pc, result, calls, batch_pc>>
statVars == <<mem_status, stats>>

\* what the model holds for output_path while output_path does not exist
\* (no byte is negative, so no file content equals it)
NoFile == <<-1>>

\* no link object is in memory and no statistics were returned
NoStats == [total |-> 0, done |-> 0, failed |-> 0, pending |-> 0]
StatIdle == mem_status = [l \in Links |-> "none"] /\ stats = NoStats

\* the statistics of download_links, counted over link.status of the objects
\* in its argument
Statistics(links, link_status) ==
    [total |-> Cardinality(links),
     done |-> Cardinality({l \in links : link_status[l] = DONE}),
     failed |-> Cardinality({l \in links : link_status[l] = FAILED}),
     pending |-> Cardinality({l \in links : link_status[l] \in {NEW_, QUEUED}})]
\* what no step of a session changes: the configuration, and the variables of
\* the other specifications
configVars == <<global_limit, per_host_limit, hostOf, imageVars, ingestVars,
                storeVars, pathVars, crawlVars>>
crashVars == <<crashed_status, crashed_pages>>

\* process_block up to the reload: create_block, link.status = QUEUED, add_links
RegisterBlock ==
    /\ proc = "running" /\ orch_pc = "idle"
    /\ status' = add_links(status, Links)
    /\ orch_pc' = "registered"
    /\ UNCHANGED <<crashVars, configVars, statVars, batchVars, pages, proc>>

\* queued_links of the reloaded block
queued_links == {l \in Links : status[l] \in {QUEUED, NEW_}}

\* download_links: one download_link task per queued link, then gather
DownloadLinks ==
    /\ proc = "running" /\ orch_pc = "registered" /\ batch_pc = "none"
    /\ queued_links # {}
    /\ pc' = [l \in Links |-> IF l \in queued_links THEN "start" ELSE pc[l]]
    /\ mem_status' = [l \in Links |-> IF l \in queued_links THEN status[l] ELSE "none"]
    /\ batch_pc' = "gathering"
    /\ UNCHANGED <<crashVars, configVars, stats, global_value, locks, result, calls, status, pages,
                   proc, orch_pc>>

(***************************************************************************)
(* ImageDownloader.download_link: the task of link l.  A task runs without *)
(* interruption between two awaits, so the steps are: entering the global  *)
(* gate, entering the host gate (up to the first await of download_image), *)
(* and the end of download_image (callback, both gates left, task ended).  *)
(***************************************************************************)
TaskRunning(l) == proc = "running" /\ batch_pc = "gathering"

\* "async with self.global_semaphore" entered; limit() looks up the host's gate
AcquireGlobal(l) ==
    /\ TaskRunning(l) /\ pc[l] = "start"
    /\ GlobalFree
    /\ global_value' = global_value - 1
    /\ locks' = LocksAfterAccess(hostOf[l])
    /\ pc' = [pc EXCEPT ![l] = "waitHost"]
    /\ UNCHANGED <<crashVars, configVars, statVars, result, calls, batch_pc, status, pages, proc, orch_pc>>

\* "async with semaphore" of the host entered; the DOWNLOADING callback is made:
\* it updates the row and download_image starts, or it raises and the task
\* ends, leaving both gates
AcquireHost(l) ==
    /\ TaskRunning(l) /\ pc[l] = "waitHost"
    /\ HostFree(hostOf[l])
    /\ calls' = [calls EXCEPT ![l] = Append(@, DOWNLOADING)]
    /\ \E raised \in BOOLEAN :
         IF raised
         THEN /\ pc' = [pc EXCEPT ![l] = "ended"]
              /\ result' = [result EXCEPT ![l] = "exc"]
              /\ global_value' = global_value + 1
              /\ UNCHANGED <<status, locks>>
         ELSE /\ pc' = [pc EXCEPT ![l] = "downloading"]
              /\ locks' = [locks EXCEPT ![hostOf[l]] = @ - 1]
              /\ status' = update_link_status(status, l, DOWNLOADING)
              /\ UNCHANGED <<result, global_value>>
    /\ UNCHANGED <<crashVars, configVars, statVars, batch_pc, pages, proc, orch_pc>>

\* the status download_link reports for download_image's (success, error)
TerminalStatus(success) == IF success THEN DONE ELSE FAILED

\* download_image returned (success, error); the terminal callback is made (it
\* updates the row or raises); both gates are left and the task ends
DownloadReturns(l) ==
    /\ TaskRunning(l) /\ pc[l] = "downloading"
    /\ \E success \in BOOLEAN, raised \in BOOLEAN :
         /\ calls' = [calls EXCEPT ![l] = Append(@, TerminalStatus(success))]
         /\ IF raised
            THEN /\ result' = [result EXCEPT ![l] = "exc"]
                 /\ UNCHANGED status
            ELSE /\ result' = [result EXCEPT ![l] = "ok"]
                 /\ status' = update_link_status(status, l, TerminalStatus(success))
    /\ locks' = ReleaseHost(locks, hostOf[l])
    /\ global_value' = global_value + 1
    /\ pc' = [pc EXCEPT ![l] = "ended"]
    /\ UNCHANGED <<crashVars, configVars, statVars, batch_pc, pages, proc, orch_pc>>

\* variant: a task that ends with an exception keeps its host slot
DownloadRaises_KeepsHost(l) ==
    /\ TaskRunning(l) /\ pc[l] = "downloading"
    /\ result' = [result EXCEPT ![l] = "exc"]
    /\ global_value' = global_value + 1
    /\ pc' = [pc EXCEPT ![l] = "ended"]
    /\ UNCHANGED <<crashVars, configVars, statVars, locks, calls, batch_pc, status, pages, proc, orch_pc>>

\* download_image raised before its try block (mkdir, stat of the .part file):
\* no callback; both gates are left and the task ends with the exception
DownloadRaises(l) ==
    /\ TaskRunning(l) /\ pc[l] = "downloading"
    /\ result' = [result EXCEPT ![l] = "exc"]
    /\ locks' = ReleaseHost(locks, hostOf[l])
    /\ global_value' = global_value + 1
    /\ pc' = [pc EXCEPT ![l] = "ended"]
    /\ UNCHANGED <<crashVars, configVars, statVars, calls, batch_pc, status, pages, proc, orch_pc>>

\* variant: gather without return_exceptions is over at the first exception
GatherDone_FirstException ==
    \/ \A l \in Links : pc[l] \in {"unborn", "ended"}
    \/ \E l \in Links : result[l] = "exc"

\* asyncio.gather(*tasks, return_exceptions=True) is done
GatherDone == \A l \in Links : pc[l] \in {"unborn", "ended"}

\* download_links returns its statistics
GatherReturns ==
    /\ proc = "running" /\ batch_pc = "gathering"
    /\ GatherDone
    /\ stats' = Statistics({l \in Links : mem_status[l] # "none"}, mem_status)
    /\ batch_pc' = "returned"
    /\ UNCHANGED <<crashVars, configVars, mem_status, global_value, locks, pc, result, calls, status, pages,
                   proc, orch_pc>>

\* process_block after the batch: reload, export_links_jsonl, statistics
ExportBlock ==
    /\ proc = "running" /\ orch_pc = "registered" /\ batch_pc = "returned"
    /\ orch_pc' = "exported"
    /\ UNCHANGED <<crashVars, configVars, statVars, batchVars, status, pages, proc>>

(***************************************************************************)
(* Crash and restart                                                       *)
(***************************************************************************)
\* the process is killed: what was committed to the store survives, the tasks
\* and gates do not
Crash ==
    /\ proc = "running"
    /\ proc' = "crashed"
    /\ pc' = [l \in Links |-> "unborn"]
    /\ result' = [l \in Links |-> "none"]
    /\ calls' = [l \in Links |-> <<>>]
    /\ batch_pc' = "none"
    /\ global_value' = global_limit
    /\ locks' = <<>>
    /\ orch_pc' = "idle"
    /\ crashed_status' = status
    /\ crashed_pages' = pages
    /\ mem_status' = [l \in Links |-> "none"]
    /\ stats' = NoStats
    /\ UNCHANGED <<configVars, status, pages>>

\* Orchestrator._recover_from_crash, first statement: recover_downloading_links
RecoverLinks ==
    /\ proc = "crashed"
    /\ status' = recover_downloading_links(status)
    /\ proc' = "recovering"
    /\ UNCHANGED <<crashVars, configVars, statVars, batchVars, pages, orch_pc>>

\* Orchestrator._recover_from_crash, second statement: recover_processing_pages
RecoverPages ==
    /\ proc = "recovering"
    /\ pages' = recover_processing_pages(pages)
    /\ proc' = "recovered"
    /\ UNCHANGED <<crashVars, configVars, statVars, batchVars, status, orch_pc>>

\* the process is killed between the two commits of the recovery pass
CrashInRecovery ==
    /\ proc = "recovering"
    /\ proc' = "crashed"
    /\ crashed_status' = status
    /\ crashed_pages' = pages
    /\ UNCHANGED <<configVars, statVars, batchVars, status, pages, orch_pc>>

\* no download_image call is modelled
ImageIdle ==
    /\ max_retries = 1 /\ resource = <<>> /\ part = <<>> /\ part_exists = FALSE
    /\ final = NoFile /\ resume_from = 0 /\ attempt = 0 /\ backoff = 1
    /\ link_size = 0 /\ stream_pos = 0 /\ img_pc = "returned" /\ img_ret = "none"
    /\ n_requests = 0 /\ n_sleeps = 0
    /\ last_sleep = [kind |-> "none", ticks |-> 0, n |-> 0]
    /\ last_response = "none"
    /\ part0 = <<>>

(***************************************************************************)
(* Specification of a session over an HTML file                            *)
(***************************************************************************)
\* no HTML is being ingested: the store has no block and the output tree is empty
IngestIdle ==
    /\ html = <<>>
    /\ img_dirs = {} /\ links_dirs = {} /\ exported = <<>>
    /\ block_rows = {} /\ link_rows = <<>>
    /\ ingest_pc = "idle" /\ ingest_idx = 0
    /\ numbered_slug = [number |-> 0, slug |-> "none"]
    /\ counts_after = <<>>
    /\ n_kills = 0
    /\ pending_at_kill = {}

\* the repository has not been called
StoreIdle == call = [op |-> "none", links |-> <<>>, rows_before |-> 0, again |-> FALSE]

\* no batch over an output directory: download_links has not been called
PathsIdle ==
    /\ link_url = <<>> /\ dir_entries = <<>> /\ inode_bytes = <<>>
    /\ dl_pc = <<>> /\ dl_status = <<>> /\ dl_resume = <<>>
    /\ dl_handle = <<>> /\ dl_pos = <<>>

\* no crawl: process_url has not been called
CrawlIdle ==
    /\ page_param = "start" /\ posts_per_page = 15 /\ max_pages = 0
    /\ crawl_pc = "idle"
    /\ current_page_num = 0 /\ pages_processed = 0
    /\ page_url = [query |-> <<>>, malformed |-> FALSE]
    /\ pagination_links = <<>>
    /\ fetched = <<>>
    /\ n_sessions = 0

Init ==
    /\ global_limit \in 1..MaxLimit
    /\ per_host_limit \in 1..MaxLimit
    /\ hostOf \in [Links -> Hosts]
    /\ global_value = global_limit
    /\ locks = <<>>
    /\ pc = [l \in Links |-> "unborn"]
    /\ result = [l \in Links |-> "none"]
    /\ calls = [l \in Links |-> <<>>]
    /\ batch_pc = "none"
    /\ StatIdle
    /\ status = [l \in Links |-> "none"]
    /\ pages = [n \in PageNums |-> "none"]
    /\ proc = "running"
    /\ orch_pc = "idle"
    /\ crashed_status = [l \in Links |-> "none"]
    /\ crashed_pages = [n \in PageNums |-> "none"]
    /\ ImageIdle
    /\ IngestIdle
    /\ StoreIdle
    /\ PathsIdle
    /\ CrawlIdle

Next ==
    \/ RegisterBlock
    \/ DownloadLinks
    \/ \E l \in Links : AcquireGlobal(l)
    \/ \E l \in Links : AcquireHost(l)
    \/ \E l \in Links : DownloadReturns(l)
    \/ \E l \in Links : DownloadRaises(l)
    \/ GatherReturns
    \/ ExportBlock
    \/ Crash
    \/ RecoverLinks
    \/ RecoverPages
    \/ CrashInRecovery

Spec == Init /\ [][Next]_vars

\* one batch in a process that is not killed
NextBatch ==
    \/ RegisterBlock
    \/ DownloadLinks
    \/ \E l \in Links : AcquireGlobal(l)
    \/ \E l \in Links : AcquireHost(l)
    \/ \E l \in Links : DownloadReturns(l)
    \/ \E l \in Links : DownloadRaises(l)
    \/ GatherReturns
    \/ ExportBlock

SpecBatch == Init /\ [][NextBatch]_vars

\* a step of one of the tasks of the batch
TaskStep ==
    \E l \in Links : AcquireGlobal(l) \/ AcquireHost(l) \/ DownloadReturns(l) \/ DownloadRaises(l)

\* the event loop goes on while a task can go on: a task at a gate with a
\* free slot can enter it (asyncio.Semaphore wakes a waiter when a slot is
\* given back), and every download_image call returns or raises
SpecBatchFair == SpecBatch /\ WF_vars(TaskStep)

(***************************************************************************)
(* Properties of the batch (specification Spec)                            *)
(***************************************************************************)
Terminal == {DONE, FAILED}

\* C1: for every hostname, at every moment, at most per_host_limit tasks are
\* inside HostLimiter.limit() for it; a task waits at the gate only when the
\* gate is full, and then a holder of that gate can still run to its end
C1_PerHostLimit ==
    /\ \A h \in Hosts : Cardinality(HostHolders(h)) <= per_host_limit
    /\ \A l \in Links :
         (TaskRunning(l) /\ pc[l] = "waitHost" /\ ~HostFree(hostOf[l])) =>
            /\ Cardinality(HostHolders(hostOf[l])) = per_host_limit
            /\ \E m \in HostHolders(hostOf[l]) : ENABLED DownloadReturns(m)

\* a task holds a global slot and waits at its host's full gate while the
\* holder of that gate downloads
C1_Witness ==
    \E l \in Links :
        /\ TaskRunning(l) /\ pc[l] = "waitHost" /\ ~HostFree(hostOf[l])
        /\ Cardinality(HostHolders(hostOf[l])) = per_host_limit

\* links that received the DOWNLOADING callback and no DONE/FAILED callback yet
AwaitingTerminal ==
    {l \in Links : Len(calls[l]) >= 1 /\ \A i \in 1..Len(calls[l]) : calls[l][i] \notin Terminal}

\* C2: at every moment of a batch, the number of links that received the
\* DOWNLOADING callback but not yet their DONE/FAILED callback is at most
\* global_limit
C2_GlobalLimitByCallbacks == Cardinality(AwaitingTerminal) <= global_limit

\* the gate itself: never more than global_limit tasks inside the global gate,
\* and the free slots plus the holders make up the limit
GlobalGateBound ==
    /\ Cardinality(GlobalHolders) <= global_limit
    /\ global_value = global_limit - Cardinality(GlobalHolders)

\* C6: every link of a batch gets the terminal callback (DONE or FAILED)
\* exactly once, never both, never zero times once the batch has returned, and
\* only after its single DOWNLOADING callback
C6_ExactlyOneTerminal ==
    /\ \A l \in Links :
         calls[l] \in {<<>>, <<DOWNLOADING>>, <<DOWNLOADING, DONE>>, <<DOWNLOADING, FAILED>>}
    /\ batch_pc = "returned" => \A l \in Links : Len(calls[l]) = 2

\* what holds of the callbacks: never two terminal callbacks, never one
\* before the DOWNLOADING callback, and exactly one for a task that returned
AtMostOneTerminal ==
    /\ \A l \in Links :
         calls[l] \in {<<>>, <<DOWNLOADING>>, <<DOWNLOADING, DONE>>, <<DOWNLOADING, FAILED>>}
    /\ \A l \in Links : result[l] = "ok" => Len(calls[l]) = 2

\* the moves of a persisted link status that are allowed
AllowedMoves ==
    {<<"none", QUEUED>>, <<"none", NEW_>>,
     <<NEW_, DOWNLOADING>>, <<QUEUED, DOWNLOADING>>,
     <<DOWNLOADING, DONE>>, <<DOWNLOADING, FAILED>>}

StatusMovesAllowed ==
    \A l \in Links :
        status'[l] # status[l] =>
            \/ <<status[l], status'[l]>> \in AllowedMoves
            \/ /\ proc = "crashed" /\ proc' = "recovering"
               /\ status[l] = DOWNLOADING /\ status'[l] = QUEUED

\* C7: a persisted status moves only NEW/QUEUED -> DOWNLOADING -> DONE | FAILED,
\* plus DOWNLOADING -> QUEUED by the recovery pass; no link is ever SKIPPED (so
\* DONE and FAILED are entered from DOWNLOADING only)
C7_StatusTransitions ==
    /\ [](\A l \in Links : status[l] # SKIPPED)
    /\ [][StatusMovesAllowed]_vars

\* the recovery pass has just run over a store with finished and unfinished links
C7_Witness ==
    /\ proc = "recovering"
    /\ \E l \in Links : status[l] = DONE
    /\ \E l \in Links : status[l] = FAILED
    /\ \E l \in Links : status[l] = QUEUED

\* C8: download_links returns only after every task of the batch has ended, and
\* a task that raised leaves the others their own outcome: each task that
\* returned has its terminal status persisted
C8_GatherWaitsForAll ==
    batch_pc = "returned" =>
        \A l \in Links :
            /\ pc[l] = "ended"
            /\ result[l] = "ok" => (status[l] \in Terminal /\ status[l] = calls[l][2])

\* the batch returned with one task that raised and others done and failed
C8_Witness ==
    /\ batch_pc = "returned"
    /\ \E l, m, n \in Links :
         result[l] = "exc" /\ status[m] = DONE /\ status[n] = FAILED

(***************************************************************************)
(* Specification of the recovery pass: the process starts over any store   *)
(* a crash can leave (link rows in the statuses the engine persists, page  *)
(* rows in the statuses the crawl loop persists, one page at a time being  *)
(* processed).                                                             *)
(***************************************************************************)
PersistedLinkStatus == {"none", QUEUED, DOWNLOADING, DONE, FAILED}
PersistedPageStatus == {"none", "new", "processing", "done", "failed"}

InitRecover ==
    /\ status \in [Links -> PersistedLinkStatus]
    /\ pages \in [PageNums -> PersistedPageStatus]
    /\ Cardinality({n \in PageNums : pages[n] = "processing"}) <= 1
    /\ crashed_status = status
    /\ crashed_pages = pages
    /\ proc = "crashed"
    /\ global_limit = 1 /\ per_host_limit = 1
    /\ hostOf = [l \in Links |-> "default"]
    /\ global_value = global_limit
    /\ locks = <<>>
    /\ pc = [l \in Links |-> "unborn"]
    /\ result = [l \in Links |-> "none"]
    /\ calls = [l \in Links |-> <<>>]
    /\ batch_pc = "none"
    /\ StatIdle
    /\ orch_pc = "idle"
    /\ ImageIdle
    /\ IngestIdle
    /\ StoreIdle
    /\ PathsIdle
    /\ CrawlIdle

NextRecover ==
    \/ RecoverLinks
    \/ RecoverPages
    \/ CrashInRecovery

SpecRecover == InitRecover /\ [][NextRecover]_vars

\* C3: after the recovery pass no link is persisted DOWNLOADING and no page
\* processing; every link the crash left DOWNLOADING is QUEUED and every page
\* it left processing is new
C3_RecoveryPass ==
    proc = "recovered" =>
        /\ \A l \in Links : status[l] # DOWNLOADING
        /\ \A n \in PageNums : pages[n] # "processing"
        /\ \A l \in Links : crashed_status[l] = DOWNLOADING => status[l] = QUEUED
        /\ \A n \in PageNums : crashed_pages[n] = "processing" => pages[n] = "new"

\* the pass has run over a store with a DOWNLOADING link and a processing page
C3_Witness ==
    /\ proc = "recovered"
    /\ \E l \in Links : crashed_status[l] = DOWNLOADING
    /\ \E n \in PageNums : crashed_pages[n] = "processing"

(***************************************************************************)
(* ImageDownloader.download_image for one link.  The server holds          *)
(* `resource` and honours byte ranges; time is counted in ticks of 1/255   *)
(* second, the grain of the jitter.                                        *)
(***************************************************************************)
MaxRetries == 7      \* max_retries ranges over 1..MaxRetries
MaxBytes == 3        \* the resource has 1..MaxBytes bytes, streamed one per chunk

TicksPerSecond == 255     \* os.urandom(1)[0] / 255.0
InitialBackoff == 1       \* backoff = 1.0
BackoffCap == 60          \* min(backoff * 2, 60)

Jitters == {0, 255}       \* the least and the greatest value of os.urandom(1)[0]
RetryAfters == {1, 120}   \* Retry-After values (seconds) that are tried

Min(a, b) == IF a <= b THEN a ELSE b

\* variant: the doubling is not capped
NextBackoff_NoCap(b) == b * 2

\* backoff = min(backoff * 2, 60)
NextBackoff(b) == Min(b * 2, BackoffCap)

\* sleep_time = backoff + (os.urandom(1)[0] / 255.0), in ticks
BackoffSleep(b, jitter) == b * TicksPerSecond + jitter

otherThanImageOrIngest == <<global_limit, per_host_limit, hostOf, global_value,
                            locks, pc, result, calls, batch_pc, mem_status, stats,
                            status, pages, proc, orch_pc, crashed_status,
                            crashed_pages>>
otherThanImage == <<otherThanImageOrIngest, ingestVars, storeVars, pathVars, crawlVars>>

\* return (success, error) from download_image
Return(what) ==
    /\ img_pc' = "returned"
    /\ img_ret' = what

\* lines 63-74: the resume offset is the size of an existing .part file
EnterDownloadImage ==
    /\ img_pc = "entry"
    /\ resume_from' = IF part_exists THEN Len(part) ELSE 0
    /\ attempt' = 0
    /\ backoff' = InitialBackoff
    /\ img_pc' = "request"
    /\ UNCHANGED <<max_retries, resource, part, part_exists, final, link_size,
                   stream_pos, img_ret, n_requests, n_sleeps, last_sleep, part0>>
    /\ UNCHANGED last_response
    /\ UNCHANGED otherThanImage

\* "while attempt < self.max_retries" is false: Max retries exceeded
LoopExhausted ==
    /\ img_pc = "request" /\ ~(attempt < max_retries)
    /\ Return("max_retries")
    /\ UNCHANGED <<max_retries, resource, part, part_exists, final, resume_from,
                   attempt, backoff, link_size, stream_pos, n_requests, n_sleeps,
                   last_sleep, part0>>
    /\ UNCHANGED last_response
    /\ UNCHANGED otherThanImage

\* variant: the rate-limit branch sleeps and continues without consuming an attempt
RateLimited_NoAttempt ==
    /\ img_pc = "request" /\ attempt < max_retries
    /\ n_requests' = n_requests + 1
    /\ \E jitter \in Jitters :
         last_sleep' = [kind |-> "backoff", ticks |-> BackoffSleep(backoff, jitter),
                        n |-> attempt + 1]
    /\ n_sleeps' = n_sleeps + 1
    /\ backoff' = NextBackoff(backoff)
    /\ UNCHANGED <<max_retries, resource, part, part_exists, final, resume_from,
                   attempt, link_size, stream_pos, img_pc, img_ret, part0>>
    /\ last_response' = "rate_limited"
    /\ UNCHANGED otherThanImage

\* the request is answered 429 or 503: sleep Retry-After or the backoff with
\* jitter, consume an attempt, double the backoff, continue
RateLimited ==
    /\ img_pc = "request" /\ attempt < max_retries
    /\ n_requests' = n_requests + 1
    /\ \E retry_after \in {0} \cup RetryAfters, jitter \in Jitters :
         last_sleep' =
            IF retry_after > 0
            THEN [kind |-> "retry_after", ticks |-> retry_after * TicksPerSecond,
                  n |-> attempt + 1]
            ELSE [kind |-> "backoff", ticks |-> BackoffSleep(backoff, jitter),
                  n |-> attempt + 1]
    /\ n_sleeps' = n_sleeps + 1
    /\ attempt' = attempt + 1
    /\ backoff' = NextBackoff(backoff)
    /\ UNCHANGED <<max_retries, resource, part, part_exists, final, resume_from,
                   link_size, stream_pos, img_pc, img_ret, part0>>
    /\ last_response' = "rate_limited"
    /\ UNCHANGED otherThanImage

\* the request is answered 429 or 503 with a Retry-After header that is an
\* HTTP date: int() of it raises ValueError inside the try block, "except
\* Exception" returns failure
RateLimitedDateHeader ==
    /\ img_pc = "request" /\ attempt < max_retries
    /\ n_requests' = n_requests + 1
    /\ Return("unexpected")
    /\ UNCHANGED <<max_retries, resource, part, part_exists, final, resume_from,
                   attempt, backoff, link_size, stream_pos, n_sleeps, last_sleep, part0>>
    /\ last_response' = "rate_limited"
    /\ UNCHANGED otherThanImage

\* the exceptions an attempt raises, by class name; the subclasses of
\* aiohttp.ClientError are caught by "except aiohttp.ClientError", every
\* other by "except Exception".  The total deadline of ClientTimeout(total=...)
\* expires as asyncio.TimeoutError.
ClientErrors == {"ClientConnectionError", "ClientResponseError", "ClientPayloadError"}
ExceptBranch(exc) == IF exc \in ClientErrors THEN "client_error" ELSE "unexpected"

\* "except aiohttp.ClientError": consume an attempt; fail when none is left,
\* else sleep the backoff with jitter, double the backoff and retry
OnClientError ==
    /\ attempt' = attempt + 1
    /\ IF attempt + 1 >= max_retries
       THEN /\ Return("client_error")
            /\ UNCHANGED <<backoff, n_sleeps, last_sleep>>
       ELSE /\ \E jitter \in Jitters :
                 last_sleep' = [kind |-> "backoff",
                                ticks |-> BackoffSleep(backoff, jitter),
                                n |-> attempt + 1]
            /\ n_sleeps' = n_sleeps + 1
            /\ backoff' = NextBackoff(backoff)
            /\ img_pc' = "request"
            /\ UNCHANGED img_ret

\* session.get or raise_for_status raises an aiohttp.ClientError
RequestFails ==
    /\ img_pc = "request" /\ attempt < max_retries
    /\ n_requests' = n_requests + 1
    /\ OnClientError
    /\ UNCHANGED <<max_retries, resource, part, part_exists, final, resume_from,
                   link_size, stream_pos, part0>>
    /\ last_response' = "client_error"
    /\ UNCHANGED otherThanImage

\* variant: an unexpected error is handled like a transient one
RequestUnexpected_Retried ==
    /\ img_pc = "request" /\ attempt < max_retries
    /\ n_requests' = n_requests + 1
    /\ OnClientError
    /\ UNCHANGED <<max_retries, resource, part, part_exists, final, resume_from,
                   link_size, stream_pos, part0>>
    /\ last_response' = "unexpected"
    /\ UNCHANGED otherThanImage

\* the deadline of the request expires before the response has come
RequestTimesOut ==
    /\ img_pc = "request" /\ attempt < max_retries
    /\ n_requests' = n_requests + 1
    /\ IF ExceptBranch("TimeoutError") = "client_error"
       THEN OnClientError
       ELSE /\ Return("unexpected")
            /\ UNCHANGED <<attempt, backoff, n_sleeps, last_sleep>>
    /\ UNCHANGED <<max_retries, resource, part, part_exists, final, resume_from,
                   link_size, stream_pos, part0>>
    /\ last_response' = "timeout"
    /\ UNCHANGED otherThanImage

\* "except Exception": the request raises something that is no ClientError
RequestUnexpected ==
    /\ img_pc = "request" /\ attempt < max_retries
    /\ n_requests' = n_requests + 1
    /\ Return("unexpected")
    /\ UNCHANGED <<max_retries, resource, part, part_exists, final, resume_from,
                   attempt, backoff, link_size, stream_pos, n_sleeps, last_sleep, part0>>
    /\ last_response' = "unexpected"
    /\ UNCHANGED otherThanImage

\* variant: a wrong content type is handled like a transient error
InvalidContentType_Retried ==
    /\ img_pc = "request" /\ attempt < max_retries
    /\ n_requests' = n_requests + 1
    /\ OnClientError
    /\ UNCHANGED <<max_retries, resource, part, part_exists, final, resume_from,
                   link_size, stream_pos, part0>>
    /\ last_response' = "invalid_content_type"
    /\ UNCHANGED otherThanImage

\* the response's Content-Type does not start with "image/": return failure
InvalidContentType ==
    /\ img_pc = "request" /\ attempt < max_retries
    /\ n_requests' = n_requests + 1
    /\ Return("invalid_content_type")
    /\ UNCHANGED <<max_retries, resource, part, part_exists, final, resume_from,
                   attempt, backoff, link_size, stream_pos, n_sleeps, last_sleep, part0>>
    /\ last_response' = "invalid_content_type"
    /\ UNCHANGED otherThanImage

\* the body a server honouring "Range: bytes=<resume_from>-" delivers starts
\* at this offset; a range at or past the end of the resource is refused
RangeSatisfiable == resume_from = 0 \/ resume_from < Len(resource)

\* an image response arrives: metadata is recorded and the .part file is opened,
\* "ab" when resume_from > 0 and "wb" (truncating) otherwise
ResponseOk ==
    /\ img_pc = "request" /\ attempt < max_retries
    /\ RangeSatisfiable
    /\ n_requests' = n_requests + 1
    /\ \E has_content_length \in BOOLEAN :
         link_size' = IF has_content_length THEN Len(resource) - resume_from
                                             ELSE link_size
    /\ part' = IF resume_from > 0 THEN part ELSE <<>>
    /\ part_exists' = TRUE
    /\ stream_pos' = resume_from
    /\ img_pc' = "streaming"
    /\ UNCHANGED <<max_retries, resource, final, resume_from, attempt, backoff,
                   img_ret, n_sleeps, last_sleep, part0>>
    /\ last_response' = "ok"
    /\ UNCHANGED otherThanImage

\* "await f.write(chunk)": the next chunk of the body is appended to .part
StreamChunk ==
    /\ img_pc = "streaming" /\ stream_pos < Len(resource)
    /\ part' = Append(part, resource[stream_pos + 1])
    /\ stream_pos' = stream_pos + 1
    /\ UNCHANGED <<max_retries, resource, part_exists, final, resume_from, attempt,
                   backoff, link_size, img_pc, img_ret, n_requests, n_sleeps,
                   last_sleep, part0>>
    /\ UNCHANGED last_response
    /\ UNCHANGED otherThanImage

\* the connection breaks while the body is read (an aiohttp.ClientError)
StreamFails ==
    /\ img_pc = "streaming"
    /\ OnClientError
    /\ UNCHANGED <<max_retries, resource, part, part_exists, final, resume_from,
                   link_size, stream_pos, n_requests, part0>>
    /\ UNCHANGED last_response
    /\ UNCHANGED otherThanImage

\* reading, writing or renaming raises something that is no ClientError
StreamUnexpected ==
    /\ img_pc = "streaming"
    /\ Return("unexpected")
    /\ UNCHANGED <<max_retries, resource, part, part_exists, final, resume_from,
                   attempt, backoff, link_size, stream_pos, n_requests, n_sleeps,
                   last_sleep, part0>>
    /\ last_response' = "unexpected"
    /\ UNCHANGED otherThanImage

\* the deadline of the request expires while the body is read
StreamTimesOut ==
    /\ img_pc = "streaming"
    /\ IF ExceptBranch("TimeoutError") = "client_error"
       THEN OnClientError
       ELSE /\ Return("unexpected")
            /\ UNCHANGED <<attempt, backoff, n_sleeps, last_sleep>>
    /\ UNCHANGED <<max_retries, resource, part, part_exists, final, resume_from,
                   link_size, stream_pos, n_requests, part0>>
    /\ last_response' = "timeout"
    /\ UNCHANGED otherThanImage

\* the body is complete: os.replace(part_path, output_path), return success
StreamEnds ==
    /\ img_pc = "streaming" /\ stream_pos = Len(resource)
    /\ Return("success")
    /\ final' = part
    /\ part' = <<>>
    /\ part_exists' = FALSE
    /\ UNCHANGED <<max_retries, resource, resume_from, attempt, backoff, link_size,
                   stream_pos, n_requests, n_sleeps, last_sleep, part0>>
    /\ UNCHANGED last_response
    /\ UNCHANGED otherThanImage

\* a session in which no batch is modelled
SessionIdle ==
    /\ global_limit = 1 /\ per_host_limit = 1
    /\ hostOf = [l \in Links |-> "default"]
    /\ global_value = global_limit
    /\ locks = <<>>
    /\ pc = [l \in Links |-> "unborn"]
    /\ result = [l \in Links |-> "none"]
    /\ calls = [l \in Links |-> <<>>]
    /\ batch_pc = "none"
    /\ StatIdle
    /\ status = [l \in Links |-> "none"]
    /\ pages = [n \in PageNums |-> "none"]
    /\ proc = "running"
    /\ orch_pc = "idle"
    /\ crashed_status = [l \in Links |-> "none"]
    /\ crashed_pages = [n \in PageNums |-> "none"]

\* download_image is called for a link whose .part file, if there is one, holds
\* the first bytes of the resource
InitImage ==
    /\ SessionIdle
    /\ max_retries \in 1..MaxRetries
    /\ \E size \in 1..MaxBytes : resource = [i \in 1..size |-> i]
    /\ part_exists \in BOOLEAN
    /\ \E k \in 0..Len(resource) :
         part = IF part_exists THEN SubSeq(resource, 1, k) ELSE <<>>
    /\ part0 = part
    /\ final = NoFile
    /\ resume_from = 0 /\ attempt = 0 /\ backoff = InitialBackoff
    /\ link_size = 0 /\ stream_pos = 0
    /\ img_pc = "entry" /\ img_ret = "none"
    /\ n_requests = 0 /\ n_sleeps = 0
    /\ last_sleep = [kind |-> "none", ticks |-> 0, n |-> 0]
    /\ last_response = "none"
    /\ IngestIdle
    /\ StoreIdle
    /\ PathsIdle
    /\ CrawlIdle

NextImage ==
    \/ EnterDownloadImage
    \/ LoopExhausted
    \/ RateLimited
    \/ RateLimitedDateHeader
    \/ RequestFails
    \/ RequestTimesOut
    \/ RequestUnexpected
    \/ InvalidContentType
    \/ ResponseOk
    \/ StreamChunk
    \/ StreamFails
    \/ StreamTimesOut
    \/ StreamUnexpected
    \/ StreamEnds

SpecImage == InitImage /\ [][NextImage]_vars

\* the event loop runs the coroutine on: every request is answered, fails or
\* times out, every sleep ends
\* (every step of download_image changes one of these)
imageProgress == <<img_pc, n_requests, stream_pos, attempt>>
SpecImageFair == SpecImage /\ WF_imageProgress(NextImage)

(***************************************************************************)
(* Properties of download_image (specification SpecImage)                  *)
(***************************************************************************)
\* C5: whenever download_image returns success for a link whose .part file
\* held the first K bytes of the resource, the final file is byte-identical
\* to the resource, whatever transient failures happened on the way
C5_ResumeByteIdentical ==
    img_ret = "success" => final = resource

\* what holds: a download that did not resume (no or empty .part file at the
\* start) and every download without a failure after the first chunk of a
\* resumed body gives the resource
FreshDownloadIdentical ==
    (img_ret = "success" /\ resume_from = 0) => final = resource

\* C9: a response whose Content-Type is no image type fails the link with this
\* one request: download_image returns failure at once (FAILED is reported), no
\* attempt is consumed, no sleep follows, .part is not written and no final
\* file is created; as the first response it is the only request of the call
C9_NoRetryOnContentType ==
    /\ [](last_response = "invalid_content_type" =>
            /\ img_pc = "returned" /\ img_ret = "invalid_content_type"
            /\ TerminalStatus(img_ret = "success") = FAILED
            /\ final = NoFile
            /\ n_requests = attempt + 1
            /\ n_sleeps = attempt
            /\ attempt = 0 => (n_requests = 1 /\ n_sleeps = 0 /\ part = part0))
    /\ [][last_response' = "invalid_content_type" =>
            UNCHANGED <<part, part_exists, final, n_sleeps, attempt, backoff>>]_vars

\* a text/html answer to the first request, and one that follows a retry
C9_Witness ==
    /\ last_response = "invalid_content_type"
    /\ img_pc = "returned"
    /\ attempt = 0 /\ n_requests = 1 /\ part_exists /\ Len(part) = 1

RECURSIVE Pow2(_)
Pow2(k) == IF k <= 0 THEN 1 ELSE 2 * Pow2(k - 1)

\* C10: the backoff sleep before the nth consecutive transient-error retry of a
\* call lasts at least min(2^(n-1), 60) seconds and at most one second more, so
\* never more than 61 seconds
C10_BackoffBounds ==
    last_sleep.kind = "backoff" =>
        /\ last_sleep.ticks >= Min(Pow2(last_sleep.n - 1), 60) * TicksPerSecond
        /\ last_sleep.ticks <= (Min(Pow2(last_sleep.n - 1), 60) + 1) * TicksPerSecond
        /\ last_sleep.ticks <= 61 * TicksPerSecond

\* the seventh retry sleeps the capped 60 seconds plus the full jitter
C10_Witness ==
    /\ last_sleep.kind = "backoff"
    /\ last_sleep.n = 7
    /\ last_sleep.ticks = 61 * TicksPerSecond

\* C21: download_image issues at most max_retries requests; a step that
\* begins a further iteration of the loop has consumed exactly one attempt,
\* every other step leaves the attempts as they are; the call returns; and
\* when all attempts are consumed it returns failure with an error text.
C21_AttemptsBounded ==
    /\ [](n_requests <= max_retries /\ attempt <= max_retries)
    /\ [][/\ (img_pc # "entry" /\ img_pc' = "request") => attempt' = attempt + 1
          /\ attempt' \in {attempt, attempt + 1} \/ img_pc = "entry"]_imageProgress
    /\ []((img_pc = "returned" /\ attempt >= max_retries) =>
            img_ret \in {"max_retries", "client_error"})
    /\ <>(img_pc = "returned")

\* three requests were answered by rate limits or broken connections, each
\* followed by a sleep, and the call has returned for lack of attempts
C21_Witness ==
    /\ img_pc = "returned" /\ img_ret = "max_retries"
    /\ max_retries = 3 /\ n_requests = 3 /\ attempt = 3 /\ n_sleeps = 3

\* C22: a request whose deadline expires consumes one attempt and, while
\* attempts remain, is followed by a backoff sleep and a further request.
C22_TimeoutIsTransient ==
    [][last_response' = "timeout" =>
        /\ attempt' = attempt + 1
        /\ attempt + 1 < max_retries =>
             (img_pc' = "request" /\ n_sleeps' = n_sleeps + 1)]_vars

\* what holds for a broken connection: one attempt, and a sleep and a further
\* request while attempts remain
ClientErrorIsTransient ==
    [][(last_response' = "client_error" /\ n_requests' = n_requests + 1) =>
        /\ attempt' = attempt + 1
        /\ attempt + 1 < max_retries =>
             (img_pc' = "request" /\ n_sleeps' = n_sleeps + 1)]_vars

\* C23: an error of an attempt that is neither a rate limit nor a network
\* error makes download_image return failure with that step: no attempt is
\* consumed, no sleep follows, and no request is issued afterwards.
C23_UnexpectedFailsAtOnce ==
    /\ [][last_response' = "unexpected" =>
            /\ img_pc' = "returned" /\ img_ret' = "unexpected"
            /\ TerminalStatus(img_ret' = "success") = FAILED
            /\ UNCHANGED <<attempt, backoff, n_sleeps>>]_vars
    /\ [][last_response = "unexpected" => UNCHANGED <<n_requests, n_sleeps, attempt>>]_vars

\* the second request raised an unexpected error after a first one was
\* rate-limited: one attempt and one sleep, both from the first request
C23_Witness ==
    /\ last_response = "unexpected" /\ img_pc = "returned"
    /\ n_requests = 2 /\ attempt = 1 /\ n_sleeps = 1
    /\ max_retries >= 3

\* C24: a 429/503 response is followed by a sleep of the Retry-After delay or
\* of the backoff with jitter, consumes exactly one attempt and leaves the
\* loop running; the response does not fail the link.
C24_RateLimitSleepsAndContinues ==
    [][(last_response' = "rate_limited" /\ n_requests' = n_requests + 1) =>
        /\ n_sleeps' = n_sleeps + 1
        /\ last_sleep'.kind \in {"retry_after", "backoff"}
        /\ attempt' = attempt + 1
        /\ img_pc' = "request"]_vars

\* what holds: a rate-limit response without a Retry-After header or with a
\* number of seconds in it sleeps, consumes one attempt and continues
NumericRetryAfterContinues ==
    [][(last_response' = "rate_limited" /\ n_requests' = n_requests + 1
        /\ img_ret' # "unexpected") =>
        /\ n_sleeps' = n_sleeps + 1
        /\ attempt' = attempt + 1
        /\ img_pc' = "request"]_vars

\* C26: whenever a request is issued, the offset it asks for is the length of
\* the .part file at that moment, and no range is asked for when there is no
\* .part file or an empty one.
C26_OffsetIsPartLength ==
    [][n_requests' = n_requests + 1 =>
        resume_from = IF part_exists THEN Len(part) ELSE 0]_vars

\* what holds: the first request of a call asks for the length of the .part file
FirstRequestOffsetIsPartLength ==
    [][(n_requests = 0 /\ n_requests' = 1) =>
        resume_from = IF part_exists THEN Len(part) ELSE 0]_vars

\* C38: when download_image returns success with link.size set (the size the
\* DONE callback persists), link.size is the length of the final file, for a
\* download from the first byte and for one resumed from a .part file.
C38_SizeIsFileLength ==
    (img_ret = "success" /\ link_size # 0) => link_size = Len(final)

\* what holds: the size of a download that was not resumed is the length of
\* the final file
FreshSizeIsFileLength ==
    (img_ret = "success" /\ link_size # 0 /\ resume_from = 0) => link_size = Len(final)

\* C27: the slots taken from a gate are those of the tasks inside it, and a
\* task inside a host's gate is inside the global gate (it enters the host's
\* gate after the global one and leaves it no later); a task that ends, by
\* return or by an exception of the download or of the status callback, has
\* left both gates; after download_links returns every gate is full.
C27_GatesNestedAndReleased ==
    /\ [](/\ global_limit - global_value = Cardinality(GlobalHolders)
          /\ \A h \in DOMAIN locks :
                /\ NewHostSemaphore - locks[h] = Cardinality(HostHolders(h))
                /\ HostHolders(h) \subseteq GlobalHolders)
    /\ [][\A l \in Links :
            (pc[l] \in {"waitHost", "downloading"} /\ pc'[l] = "ended") =>
                /\ global_value' = global_value + 1
                /\ locks'[hostOf[l]] =
                     locks[hostOf[l]] + (IF pc[l] = "downloading" THEN 1 ELSE 0)]_vars
    /\ [](batch_pc = "returned" =>
            /\ global_value = global_limit
            /\ \A h \in DOMAIN locks : locks[h] = NewHostSemaphore)

\* download_links has returned after three tasks on two hosts: one ended by an
\* exception with only its DOWNLOADING callback made, one failed its download,
\* and the DONE callback of the third raised
C27_Witness ==
    /\ batch_pc = "returned"
    /\ global_value = global_limit
    /\ Cardinality(DOMAIN locks) = 2
    /\ \E a, b, c \in Links :
         /\ calls[a] = <<DOWNLOADING>> /\ result[a] = "exc"
         /\ calls[b] = <<DOWNLOADING, FAILED>> /\ result[b] = "ok"
         /\ calls[c] = <<DOWNLOADING, DONE>> /\ result[c] = "exc"

\* C40: the limiter holds one gate for each bucket (hostname, or "default"
\* for a URL without one) that a task has looked up, shared by all links of
\* that bucket; a gate appears when the first task of its bucket looks it up,
\* with per_host_limit free slots; and while the process runs a gate stays in
\* place: its free slots change only by the tasks of its bucket that enter
\* and leave it.
C40_OneGatePerHost ==
    /\ [](DOMAIN locks = {hostOf[l] : l \in {m \in Links : pc[m] \in {"waitHost", "downloading", "ended"}}})
    /\ [][\A h \in Hosts :
            (h \notin DOMAIN locks /\ h \in DOMAIN locks') =>
                /\ locks'[h] = per_host_limit
                /\ \E l \in Links : hostOf[l] = h /\ pc[l] = "start" /\ pc'[l] = "waitHost"]_vars
    /\ [][\A h \in DOMAIN locks :
            proc' = "running" =>
                /\ h \in DOMAIN locks'
                /\ locks[h] - locks'[h] = Cardinality(HostHolders(h)') - Cardinality(HostHolders(h))]_vars

\* two links without hostname are at the gate "default", one inside it and one
\* waiting for its only slot, after a link with a hostname has been through
\* the gate of its host
C40_Witness ==
    /\ per_host_limit = 1 /\ DOMAIN locks = Hosts
    /\ \E a, b, c \in Links :
         /\ hostOf[a] = "default" /\ pc[a] = "downloading"
         /\ hostOf[b] = "default" /\ pc[b] = "waitHost"
         /\ hostOf[c] = "img.host" /\ pc[c] = "ended" /\ Len(calls[c]) = 2

MaxBlocks == 2       \* the HTML holds 1..MaxBlocks blocks
MaxIngestions == 2   \* process_html returns at most this often
MaxKills == 1        \* the process is killed mid-ingestion at most this often

Slugs == {"a", "b"}
Urls == {"u1", "u2"}
\* the duplicate-free, non-empty link lists extract_blocks builds, in page order
LinkLists == {<<"u1">>, <<"u1", "u2">>}
\* a block extract_blocks keeps: a slug and its link list
ExtractedBlocks == [slug : Slugs, links : LinkLists]

notIngest == <<otherThanImageOrIngest, imageVars, storeVars, pathVars, crawlVars>>

\* variant: the number of numbered directories, without the plus one
_get_next_block_number_Count(dirs) == Cardinality(dirs)

\* Orchestrator._get_next_block_number: the numbered directories in img/, plus one
_get_next_block_number(dirs) == Cardinality(dirs) + 1

\* Orchestrator._format_slug_with_number
_format_slug_with_number(slug, number) == [number |-> number, slug |-> slug]

\* LinkRepository.get_block_by_slug: the rows with this slug (none or one)
get_block_by_slug(rows, slug) == {r \in rows : r.slug = slug}

\* LinkRepository.create_block: INSERT gives the next rowid
create_block(rows, slug) ==
    rows \cup {[block_id |-> Cardinality(rows) + 1, slug |-> slug]}

\* an ImageLink as process_block hands it to add_links: status QUEUED, the
\* dataclass defaults for the rest
QueuedLink(u) == [url |-> u, status |-> QUEUED, retries |-> 0, error |-> "none"]

\* UNIQUE(block_id, url) of table links
HasLinkRow(rows, block_id, url) ==
    \E i \in DOMAIN rows : rows[i].block_id = block_id /\ rows[i].url = url

\* variant: INSERT OR REPLACE, the row of a known URL is written again
InsertLink_Replace(rows, block_id, link) ==
    IF HasLinkRow(rows, block_id, link.url)
    THEN [i \in DOMAIN rows |->
            IF rows[i].block_id = block_id /\ rows[i].url = link.url
            THEN [block_id |-> block_id, url |-> link.url, status |-> link.status,
                  retries |-> link.retries, error |-> link.error]
            ELSE rows[i]]
    ELSE Append(rows, [block_id |-> block_id, url |-> link.url, status |-> link.status,
                       retries |-> link.retries, error |-> link.error])

\* one turn of the loop of add_links: INSERT, the IntegrityError is passed over
InsertLink(rows, block_id, link) ==
    IF HasLinkRow(rows, block_id, link.url)
    THEN rows
    ELSE Append(rows, [block_id |-> block_id, url |-> link.url, status |-> link.status,
                       retries |-> link.retries, error |-> link.error])

\* LinkRepository.add_links on the link table: the loop over the links
RECURSIVE add_link_rows(_, _, _)
add_link_rows(rows, block_id, links) ==
    IF links = <<>> THEN rows
    ELSE add_link_rows(InsertLink(rows, block_id, Head(links)), block_id, Tail(links))

\* LinkRepository.get_links_by_block: SELECT ... WHERE block_id = ? ORDER BY id
get_links_by_block(rows, block_id) ==
    SelectSeq(rows, LAMBDA r : r.block_id = block_id)

\* the ids of the rows process_block takes as queued_links
queued_link_ids(rows, block_id) ==
    {i \in DOMAIN rows : rows[i].block_id = block_id /\ rows[i].status \in {QUEUED, NEW_}}

\* LinkRepository.update_link_status as the callback of process_block calls it:
\* DOWNLOADING and DONE set the status, FAILED also the error and retries + 1
update_link_row(rows, link_id, new_status) ==
    [rows EXCEPT ![link_id] =
        IF new_status = FAILED
        THEN [@ EXCEPT !.status = FAILED, !.error = "err", !.retries = @ + 1]
        ELSE [@ EXCEPT !.status = new_status]]

\* variant: the recovery pass queues the failed links again as well
recover_downloading_rows_AlsoFailed(rows) ==
    [i \in DOMAIN rows |->
        IF rows[i].status \in {DOWNLOADING, FAILED} THEN [rows[i] EXCEPT !.status = QUEUED]
        ELSE rows[i]]

\* LinkRepository.recover_downloading_links on the link table
recover_downloading_rows(rows) ==
    [i \in DOMAIN rows |->
        IF rows[i].status = DOWNLOADING THEN [rows[i] EXCEPT !.status = QUEUED]
        ELSE rows[i]]

\* fs.ensure_directory: creates the directory if it is missing
ensure_directory(dirs, d) == dirs \cup {d}

(***************************************************************************)
(* The JSONL export.  A line is the list of the key/value pairs json.dumps *)
(* writes; a value is written as null, as a string or as a number.         *)
(***************************************************************************)
JsonNull == <<"null">>
JsonString(s) == <<"string", s>>
JsonNumber(n) == <<"number", n>>
\* an optional text column: None is written as null
JsonOptional(s) == IF s = "none" THEN JsonNull ELSE JsonString(s)
FromJsonOptional(v) == IF v = JsonNull THEN "none" ELSE v[2]

\* the dict export_links_jsonl builds for a link
link_data(r) == [url |-> r.url, status |-> r.status, retries |-> r.retries, error |-> r.error]

\* json.dumps and json.loads of such a dict
dumps_link(d) ==
    << <<"url", JsonString(d.url)>>, <<"status", JsonString(d.status)>>,
       <<"retries", JsonNumber(d.retries)>>, <<"error", JsonOptional(d.error)>> >>
loads_link(line) ==
    [url |-> line[1][2][2], status |-> line[2][2][2],
     retries |-> line[3][2][2], error |-> FromJsonOptional(line[4][2])]

\* json.dumps and json.loads of the manifest
dumps_manifest(m) ==
    << <<"block_id", JsonNumber(m.block_id)>>, <<"slug", JsonString(m.slug)>>,
       <<"total_links", JsonNumber(m.total_links)>>,
       <<"done_links", JsonNumber(m.done_links)>>,
       <<"failed_links", JsonNumber(m.failed_links)>> >>

\* json.dumps of a record: a link dict or the manifest
dumps(record) ==
    IF "url" \in DOMAIN record THEN dumps_link(record) ELSE dumps_manifest(record)

\* variant: the file is opened for appending
atomic_write_jsonl_Append(old_file, records) ==
    old_file \o [i \in 1..Len(records) |-> dumps(records[i])]

\* fs.atomic_write_jsonl: a temporary file gets one line per record, in order,
\* and replaces the file
atomic_write_jsonl(old_file, records) ==
    [i \in 1..Len(records) |-> dumps(records[i])]

NoFiles == [all_links |-> <<>>, done_links |-> <<>>, manifest |-> <<>>]
FilesOf(files, slug) == IF slug \in DOMAIN files THEN files[slug] ELSE NoFiles

\* variant: the three files are appended to
export_links_jsonl_Append(files, rows, block) ==
    LET links == get_links_by_block(rows, block.block_id)
        all_links == [i \in 1..Len(links) |-> link_data(links[i])]
        done_links == SelectSeq(all_links, LAMBDA d : d.status = DONE)
        manifest == [block_id |-> block.block_id, slug |-> block.slug,
                     total_links |-> Len(links), done_links |-> Len(done_links),
                     failed_links |-> Len(SelectSeq(links, LAMBDA r : r.status = FAILED))]
        old == FilesOf(files, block.slug)
    IN (block.slug :> [all_links |-> atomic_write_jsonl_Append(old.all_links, all_links),
                       done_links |-> atomic_write_jsonl_Append(old.done_links, done_links),
                       manifest |-> atomic_write_jsonl_Append(old.manifest, <<manifest>>)])
       @@ files

\* LinkRepository.export_links_jsonl of the block reloaded from the store: the
\* three files of links/<numbered slug>/
export_links_jsonl(files, rows, block) ==
    LET links == get_links_by_block(rows, block.block_id)
        all_links == [i \in 1..Len(links) |-> link_data(links[i])]
        done_links == SelectSeq(all_links, LAMBDA d : d.status = DONE)
        manifest == [block_id |-> block.block_id, slug |-> block.slug,
                     total_links |-> Len(links), done_links |-> Len(done_links),
                     failed_links |-> Len(SelectSeq(links, LAMBDA r : r.status = FAILED))]
        old == FilesOf(files, block.slug)
    IN (block.slug :> [all_links |-> atomic_write_jsonl(old.all_links, all_links),
                       done_links |-> atomic_write_jsonl(old.done_links, done_links),
                       manifest |-> atomic_write_jsonl(old.manifest, <<manifest>>)])
       @@ files

RowCounts == [blocks |-> Cardinality(block_rows), links |-> Len(link_rows)]

\* the block row process_block works on after its reload
CurrentBlock == CHOOSE r \in block_rows : r.slug = numbered_slug

\* process_html is called on the HTML: extract_blocks, then the loop
StartProcessHtml ==
    /\ ingest_pc = "idle"
    /\ Len(counts_after) < MaxIngestions
    /\ ingest_pc' = "block"
    /\ ingest_idx' = 1
    /\ UNCHANGED <<html, img_dirs, links_dirs, exported, block_rows, link_rows,
                   numbered_slug, counts_after, n_kills, pending_at_kill>>
    /\ UNCHANGED notIngest

\* process_block up to the reload of the block: number the block, then reuse
\* the block row with that numbered slug or create it, and add the links
StoreBlock ==
    /\ ingest_pc = "block"
    /\ ingest_idx <= Len(html)
    /\ LET block == html[ingest_idx]
           block_number == _get_next_block_number(img_dirs)
           slug == _format_slug_with_number(block.slug, block_number)
           existing_block == get_block_by_slug(block_rows, slug)
           links == [i \in 1..Len(block.links) |-> QueuedLink(block.links[i])]
       IN /\ numbered_slug' = slug
          /\ IF existing_block # {}
             THEN /\ block_rows' = block_rows
                  /\ link_rows' = add_link_rows(link_rows,
                                     (CHOOSE r \in existing_block : TRUE).block_id,
                                     links)
             ELSE /\ block_rows' = create_block(block_rows, slug)
                  /\ link_rows' = add_link_rows(link_rows,
                                     Cardinality(block_rows) + 1, links)
    /\ ingest_pc' = "dirs"
    /\ UNCHANGED <<html, img_dirs, links_dirs, exported, ingest_idx,
                   counts_after, n_kills, pending_at_kill>>
    /\ UNCHANGED notIngest

\* process_block: the two output directories of the block
CreateOutputDirs ==
    /\ ingest_pc = "dirs"
    /\ img_dirs' = ensure_directory(img_dirs, numbered_slug)
    /\ links_dirs' = ensure_directory(links_dirs, numbered_slug)
    /\ ingest_pc' = "download"
    /\ UNCHANGED <<html, exported, block_rows, link_rows, ingest_idx,
                   numbered_slug, counts_after, n_kills, pending_at_kill>>
    /\ UNCHANGED notIngest

\* process_block: download_links is called with the queued links; every task
\* passes the gates (10 and 3 slots for at most two links) and reports
\* DOWNLOADING before the first response arrives
BeginDownload ==
    /\ ingest_pc = "download"
    /\ link_rows' = [i \in DOMAIN link_rows |->
                        IF i \in queued_link_ids(link_rows, CurrentBlock.block_id)
                        THEN update_link_row(link_rows, i, DOWNLOADING)[i]
                        ELSE link_rows[i]]
    /\ img_dirs' = img_dirs \cup {numbered_slug}
    /\ ingest_pc' = "downloading"
    /\ UNCHANGED <<html, links_dirs, exported, block_rows, ingest_idx,
                   numbered_slug, counts_after, n_kills, pending_at_kill>>
    /\ UNCHANGED notIngest

\* the rows after the terminal callbacks of the batch
AfterOutcome(rows, outcome) ==
    [i \in DOMAIN rows |->
        IF i \in DOMAIN outcome THEN update_link_row(rows, i, outcome[i])[i] ELSE rows[i]]

\* process_block: every download ends with its DONE or FAILED callback,
\* download_links returns, the block is reloaded and exported
DownloadAndExport ==
    /\ ingest_pc = "downloading"
    /\ LET batch == {i \in DOMAIN link_rows :
                        /\ link_rows[i].block_id = CurrentBlock.block_id
                        /\ link_rows[i].status = DOWNLOADING}
       IN \E outcome \in [batch -> {DONE, FAILED}] :
            /\ link_rows' = AfterOutcome(link_rows, outcome)
            /\ exported' = export_links_jsonl(exported, link_rows', CurrentBlock)
    /\ ingest_idx' = ingest_idx + 1
    /\ ingest_pc' = "block"
    /\ UNCHANGED <<html, img_dirs, links_dirs, block_rows, numbered_slug,
                   counts_after, n_kills, pending_at_kill>>
    /\ UNCHANGED notIngest

\* process_html: the loop over the blocks is over
ProcessHtmlReturns ==
    /\ ingest_pc = "block"
    /\ ingest_idx > Len(html)
    /\ counts_after' = Append(counts_after, RowCounts)
    /\ ingest_pc' = "idle"
    /\ UNCHANGED <<html, img_dirs, links_dirs, exported, block_rows, link_rows,
                   ingest_idx, numbered_slug, n_kills, pending_at_kill>>
    /\ UNCHANGED notIngest

\* the process is killed during an ingestion: the store and the output tree
\* keep what was committed
KillIngestion ==
    /\ ingest_pc \notin {"idle", "killed"}
    /\ n_kills < MaxKills
    /\ n_kills' = n_kills + 1
    /\ ingest_pc' = "killed"
    /\ pending_at_kill' = pending_at_kill \cup
            {i \in DOMAIN link_rows : link_rows[i].status \in {QUEUED, DOWNLOADING}}
    /\ UNCHANGED <<html, img_dirs, links_dirs, exported, block_rows, link_rows,
                   ingest_idx, numbered_slug, counts_after>>
    /\ UNCHANGED notIngest

\* the next run: Orchestrator.__init__ makes its recovery pass over the links,
\* then process_html can be called again
RecoverIngest ==
    /\ ingest_pc = "killed"
    /\ link_rows' = recover_downloading_rows(link_rows)
    /\ ingest_pc' = "idle"
    /\ UNCHANGED <<html, img_dirs, links_dirs, exported, block_rows,
                   ingest_idx, numbered_slug, counts_after, n_kills, pending_at_kill>>
    /\ UNCHANGED notIngest

InitIngest ==
    /\ \E n \in 1..MaxBlocks : html \in [1..n -> ExtractedBlocks]
    /\ img_dirs = {} /\ links_dirs = {} /\ exported = <<>>
    /\ block_rows = {} /\ link_rows = <<>>
    /\ ingest_pc = "idle" /\ ingest_idx = 0
    /\ numbered_slug = [number |-> 0, slug |-> "none"]
    /\ counts_after = <<>>
    /\ n_kills = 0
    /\ pending_at_kill = {}
    /\ SessionIdle
    /\ ImageIdle
    /\ StoreIdle
    /\ PathsIdle
    /\ CrawlIdle

NextIngest ==
    \/ StartProcessHtml
    \/ StoreBlock
    \/ CreateOutputDirs
    \/ BeginDownload
    \/ DownloadAndExport
    \/ ProcessHtmlReturns
    \/ KillIngestion
    \/ RecoverIngest

SpecIngest == InitIngest /\ [][NextIngest]_vars

\* C4: when process_html has ingested the same HTML a second time, the store
\* holds as many block rows and as many link rows as after the first ingestion
C4_ReingestionIdempotent ==
    (Len(counts_after) >= 2 /\ n_kills = 0) => counts_after[2] = counts_after[1]

\* what holds instead: without a kill every block of the second ingestion gets
\* a new number, so both counts double
ReingestionDoubles ==
    (Len(counts_after) >= 2 /\ n_kills = 0) =>
        /\ counts_after[2].blocks = 2 * counts_after[1].blocks
        /\ counts_after[2].links = 2 * counts_after[1].links

\* the one way into the existing-block branch: a kill between the commit of the
\* rows and the creation of the directory; there the rows are not added twice
ExistingBlockOnlyAfterKill ==
    [][(StoreBlock /\ block_rows' = block_rows) => n_kills > 0]_vars

\* the runs in which the program takes every step it can take and is started
\* again after a kill
SpecIngestFair ==
    /\ SpecIngest
    /\ WF_vars(StartProcessHtml) /\ WF_vars(StoreBlock) /\ WF_vars(CreateOutputDirs)
    /\ WF_vars(BeginDownload) /\ WF_vars(DownloadAndExport)
    /\ WF_vars(ProcessHtmlReturns) /\ WF_vars(RecoverIngest)

\* C16: after a kill with links QUEUED or DOWNLOADING, the restarted program
\* hands every such link to the downloader again, so that each of them gets to
\* DONE or FAILED
C16_PendingLinksResumed ==
    (ingest_pc = "killed") ~>
        (\A i \in pending_at_kill : link_rows[i].status \in {DONE, FAILED})

\* what holds: a link left behind by a kill is never lost, and it is taken up
\* again when the kill came before the block's directory was made
PendingLinksKept ==
    \A i \in pending_at_kill :
        i \in DOMAIN link_rows /\ link_rows[i].status \in {QUEUED, DOWNLOADING, DONE, FAILED}

\* C19: when process_block meets a slug that an earlier process_block call
\* registered, no block row is created, and only the links not yet registered
\* for that block are added; no block row is ever deleted
C19_SameSlugReusesBlock ==
    /\ [][(StoreBlock /\ \E r \in block_rows : r.slug.slug = html[ingest_idx].slug)
            => block_rows' = block_rows]_vars
    /\ [][block_rows \subseteq block_rows']_vars

\* what holds of it: block rows are only added
BlocksNeverDeleted == [][block_rows \subseteq block_rows']_vars

(***************************************************************************)
(* The LinkRepository called on one block: add_links, update_link_status   *)
(* and export_links_jsonl in any order (specification SpecStore)           *)
(***************************************************************************)
\* the block the calls are about
TheBlock == CHOOSE r \in block_rows : TRUE

\* the link lists add_links is called with: one or two links, also the same
\* URL twice
AddInputs ==
    {<<QueuedLink(u)>> : u \in Urls} \cup
    {<<QueuedLink(p[1]), QueuedLink(p[2])>> : p \in Urls \X Urls}

\* the moves of a link status the download callbacks make
CallbackMoves == {<<QUEUED, DOWNLOADING>>, <<DOWNLOADING, DONE>>, <<DOWNLOADING, FAILED>>}

notStore == <<otherThanImageOrIngest, imageVars, crawlVars, pathVars, html, img_dirs, links_dirs,
              block_rows, ingest_pc, ingest_idx, numbered_slug, counts_after, n_kills,
              pending_at_kill>>

\* LinkRepository.add_links(block_id, links)
AddLinksCall ==
    /\ \E links \in AddInputs :
         /\ link_rows' = add_link_rows(link_rows, TheBlock.block_id, links)
         /\ call' = [op |-> "add_links", links |-> links, rows_before |-> Len(link_rows),
                     again |-> (call.op = "add_links" /\ call.links = links)]
    /\ UNCHANGED exported
    /\ UNCHANGED notStore

\* LinkRepository.update_link_status(link_id, status, ...)
UpdateLinkCall ==
    /\ \E i \in DOMAIN link_rows, new_status \in {DOWNLOADING, DONE, FAILED} :
         /\ <<link_rows[i].status, new_status>> \in CallbackMoves
         /\ link_rows' = update_link_row(link_rows, i, new_status)
    /\ call' = [op |-> "update_link_status", links |-> <<>>,
                rows_before |-> Len(link_rows), again |-> FALSE]
    /\ UNCHANGED exported
    /\ UNCHANGED notStore

\* LinkRepository.export_links_jsonl(block, output_dir) of the reloaded block
ExportCall ==
    /\ exported' = export_links_jsonl(exported, link_rows, TheBlock)
    /\ call' = [op |-> "export_links_jsonl", links |-> <<>>,
                rows_before |-> Len(link_rows), again |-> (call.op = "export_links_jsonl")]
    /\ UNCHANGED link_rows
    /\ UNCHANGED notStore

InitStore ==
    /\ block_rows = {[block_id |-> 1, slug |-> _format_slug_with_number("a", 1)]}
    /\ link_rows = <<>>
    /\ exported = <<>>
    /\ html = <<>>
    /\ img_dirs = {} /\ links_dirs = {}
    /\ ingest_pc = "idle" /\ ingest_idx = 0
    /\ numbered_slug = [number |-> 0, slug |-> "none"]
    /\ counts_after = <<>>
    /\ n_kills = 0
    /\ pending_at_kill = {}
    /\ SessionIdle
    /\ ImageIdle
    /\ StoreIdle
    /\ PathsIdle
    /\ CrawlIdle

NextStore ==
    \/ AddLinksCall
    \/ UpdateLinkCall
    \/ ExportCall

SpecStore == InitStore /\ [][NextStore]_vars

\* the URLs of the block that have a row
RegisteredUrls(rows) == {rows[i].url : i \in DOMAIN rows}
UrlsOf(links) == {links[k].url : k \in DOMAIN links}

\* C18: add_links called with URLs the block already has raises nothing and
\* leaves every existing row as it is (status, retries and error are not
\* reset); the other links of the call are inserted, once each; a second call
\* with the same list changes nothing
C18_AddLinksIgnoresDuplicates ==
    [][call'.op = "add_links" =>
        /\ \A i \in DOMAIN link_rows : i \in DOMAIN link_rows' /\ link_rows'[i] = link_rows[i]
        /\ RegisteredUrls(link_rows') = RegisteredUrls(link_rows) \cup UrlsOf(call'.links)
        /\ Len(link_rows') = Cardinality(RegisteredUrls(link_rows'))
        /\ \A i \in DOMAIN link_rows' \ DOMAIN link_rows :
               link_rows'[i].status = QUEUED /\ link_rows'[i].block_id = TheBlock.block_id
        /\ add_link_rows(link_rows', TheBlock.block_id, call'.links) = link_rows'
        /\ call'.again => link_rows' = link_rows]_vars

\* add_links([u1, u2]) when u1 is DONE: the row of u1 stays DONE, u2 is inserted
C18_Witness ==
    /\ call.op = "add_links"
    /\ call.links = <<QueuedLink("u1"), QueuedLink("u2")>>
    /\ call.rows_before = 1
    /\ Len(link_rows) = 2
    /\ link_rows[1].url = "u1" /\ link_rows[1].status = DONE
    /\ link_rows[2].url = "u2" /\ link_rows[2].status = QUEUED

InitNumbering ==
    /\ \E n \in 1..MaxBlocks : html \in [1..n -> [slug : Slugs, links : {<<"u1">>}]]
    /\ img_dirs = {} /\ links_dirs = {} /\ exported = <<>>
    /\ block_rows = {} /\ link_rows = <<>>
    /\ ingest_pc = "idle" /\ ingest_idx = 0
    /\ numbered_slug = [number |-> 0, slug |-> "none"]
    /\ counts_after = <<>>
    /\ n_kills = 0
    /\ pending_at_kill = {}
    /\ SessionIdle
    /\ ImageIdle
    /\ StoreIdle
    /\ PathsIdle
    /\ CrawlIdle

NextNumbering ==
    \/ StartProcessHtml
    \/ StoreBlock
    \/ CreateOutputDirs
    \/ BeginDownload
    \/ DownloadAndExport
    \/ ProcessHtmlReturns

SpecNumbering == InitNumbering /\ [][NextNumbering]_vars

\* C33: in one process the blocks are numbered 1, 2, 3, ... in the order of
\* their registration (the order of their row ids), without repeat or gap; no
\* two block rows have the same numbered slug; and a block row is created
\* only under a numbered slug no row has, with the number after the last.
C33_BlockNumbersSequential ==
    /\ [](/\ {r.slug.number : r \in block_rows} = 1..Cardinality(block_rows)
          /\ \A r \in block_rows : r.slug.number = r.block_id
          /\ \A r1, r2 \in block_rows : r1.slug = r2.slug => r1 = r2)
    /\ [][block_rows' # block_rows =>
            /\ get_block_by_slug(block_rows, numbered_slug') = {}
            /\ numbered_slug'.number = Cardinality(block_rows) + 1
            /\ block_rows' = block_rows \cup {[block_id |-> Cardinality(block_rows) + 1,
                                               slug |-> numbered_slug']}]_vars

\* a page with two blocks of the same slug was ingested twice: four block
\* rows, numbered 1 to 4
C33_Witness ==
    /\ ingest_pc = "idle" /\ Len(counts_after) = 2
    /\ Len(html) = 2 /\ html[1].slug = html[2].slug
    /\ {r.slug.number : r \in block_rows} = 1..4
    /\ Cardinality(img_dirs) = 4

(***************************************************************************)
(* LinkRepository.update_link_status on whole rows of table links          *)
(* (specification SpecUpdate).  A nullable column holds <<>> for NULL and  *)
(* <<v>> for the value v; a keyword argument is <<>> for None.             *)
(***************************************************************************)
MaxUpdates == 1      \* calls of update_link_status per behaviour

\* the keyword arguments that are written to the column of their name
OptionalColumns == {"filename", "size", "etag", "last_modified", "error"}

\* the values a call passes and the values the rows held before
NewValue(column) == IF column = "size" THEN <<2>> ELSE <<"new">>
OldValue(column) == IF column = "size" THEN <<1>> ELSE <<"old">>

\* the keyword arguments of a call: each is None or a value
KeywordArgs == [OptionalColumns -> {"None", "given"}]
ArgValue(given, column) == IF given[column] = "given" THEN NewValue(column) ELSE <<>>

\* variant: every optional column is written, None as NULL
update_link_status_row_SetsAll(rows, link_id, new_status, given, increment_retries, now) ==
    [i \in DOMAIN rows |->
        IF i # link_id THEN rows[i]
        ELSE [column \in DOMAIN rows[i] |->
                IF column = "status" THEN new_status
                ELSE IF column = "updated_at" THEN now
                ELSE IF column \in OptionalColumns THEN ArgValue(given, column)
                ELSE IF column = "retries" /\ increment_retries THEN rows[i][column] + 1
                ELSE rows[i][column]]]

\* LinkRepository.update_link_status: UPDATE links SET status, updated_at, the
\* arguments that are not None [, retries = retries + 1] WHERE id = link_id
update_link_status_row(rows, link_id, new_status, given, increment_retries, now) ==
    [i \in DOMAIN rows |->
        IF i # link_id THEN rows[i]
        ELSE [column \in DOMAIN rows[i] |->
                IF column = "status" THEN new_status
                ELSE IF column = "updated_at" THEN now
                ELSE IF column \in OptionalColumns /\ ArgValue(given, column) # <<>>
                     THEN ArgValue(given, column)
                ELSE IF column = "retries" /\ increment_retries THEN rows[i][column] + 1
                ELSE rows[i][column]]]

\* a row of table links with all its columns set, and one as add_links inserts
\* it for a new link
FilledRow(url, row_status) ==
    [block_id |-> 1, url |-> url, status |-> row_status, retries |-> 1, updated_at |-> 0,
     filename |-> OldValue("filename"), size |-> OldValue("size"),
     etag |-> OldValue("etag"), last_modified |-> OldValue("last_modified"),
     error |-> OldValue("error")]
FreshRow(url, row_status) ==
    [block_id |-> 1, url |-> url, status |-> row_status, retries |-> 0, updated_at |-> 0,
     filename |-> <<>>, size |-> <<>>, etag |-> <<>>, last_modified |-> <<>>,
     error |-> <<>>]

\* datetime.now() of a call: the calls made so far, plus one
UpdatesMade == IF call.op = "update_link_status" THEN call.now ELSE 0

\* update_link_status(link_id, status, filename=, size=, etag=, last_modified=,
\* error=, increment_retries=); link_id may be an id no row has
UpdateLinkStatus ==
    /\ UpdatesMade < MaxUpdates
    /\ \E link_id \in 1..(Len(link_rows) + 1), new_status \in {DOWNLOADING, DONE, FAILED},
          given \in KeywordArgs, increment_retries \in BOOLEAN :
         /\ link_rows' = update_link_status_row(link_rows, link_id, new_status, given,
                                                increment_retries, UpdatesMade + 1)
         /\ call' = [op |-> "update_link_status", link_id |-> link_id,
                     status |-> new_status, given |-> given,
                     increment_retries |-> increment_retries,
                     before |-> link_rows, now |-> UpdatesMade + 1]
    /\ UNCHANGED exported
    /\ UNCHANGED notStore

InitUpdate ==
    /\ block_rows = {[block_id |-> 1, slug |-> _format_slug_with_number("a", 1)]}
    /\ \E s1, s2 \in {QUEUED, DOWNLOADING} :
         link_rows = <<FilledRow("u1", s1), FreshRow("u2", s2)>>
    /\ exported = <<>>
    /\ html = <<>>
    /\ img_dirs = {} /\ links_dirs = {}
    /\ ingest_pc = "idle" /\ ingest_idx = 0
    /\ numbered_slug = [number |-> 0, slug |-> "none"]
    /\ counts_after = <<>>
    /\ n_kills = 0
    /\ pending_at_kill = {}
    /\ SessionIdle
    /\ ImageIdle
    /\ StoreIdle
    /\ PathsIdle
    /\ CrawlIdle

NextUpdate == UpdateLinkStatus

SpecUpdate == InitUpdate /\ [][NextUpdate]_vars

\* C31: after a call of update_link_status the addressed row has the status
\* and the time of the call, each of filename, size, etag, last_modified and
\* error holds the argument if one was given and what it held before if not,
\* retries is one more if increment_retries was set and unchanged if not, the
\* other columns are unchanged, and so is every other row.
C31_UpdateTouchesOnlyWhatIsGiven ==
    call.op = "update_link_status" =>
        /\ DOMAIN link_rows = DOMAIN call.before
        /\ \A i \in DOMAIN link_rows :
             IF i # call.link_id THEN link_rows[i] = call.before[i]
             ELSE /\ link_rows[i].status = call.status
                  /\ link_rows[i].updated_at = call.now
                  /\ \A column \in OptionalColumns :
                       link_rows[i][column] =
                          IF call.given[column] = "given" THEN NewValue(column)
                          ELSE call.before[i][column]
                  /\ link_rows[i].retries =
                       call.before[i].retries + (IF call.increment_retries THEN 1 ELSE 0)
                  /\ link_rows[i].block_id = call.before[i].block_id
                  /\ link_rows[i].url = call.before[i].url

\* the FAILED callback on a row that held a filename and a size: error and
\* retries are written, filename, size, etag and last_modified are kept
C31_Witness ==
    /\ call.op = "update_link_status" /\ call.link_id = 1
    /\ call.status = FAILED /\ call.increment_retries
    /\ call.given = [column \in OptionalColumns |->
                        IF column = "error" THEN "given" ELSE "None"]
    /\ link_rows[1].error = <<"new">> /\ link_rows[1].retries = 2
    /\ link_rows[1].filename = <<"old">> /\ link_rows[1].size = <<1>>
    /\ link_rows[2] = call.before[2]

(***************************************************************************)
(* PaginationManager                                                       *)
(*                                                                         *)
(* A URL is its query, a list of key/value pairs whose values are texts    *)
(* (lists of characters); "malformed" marks a text urlparse rejects with a *)
(* ValueError.  Scheme, host and path play no part in the page number.     *)
(***************************************************************************)
Digits == <<"0", "1", "2", "3", "4", "5", "6", "7", "8", "9">>

\* str(n) or f"{n}" for n >= 0: the decimal digits
RECURSIVE str(_)
str(n) == IF n < 10 THEN <<Digits[n + 1]>> ELSE Append(str(n \div 10), Digits[(n % 10) + 1])

\* the text after an optional sign
Unsigned(text) == IF text # <<>> /\ Head(text) \in {"-", "+"} THEN Tail(text) ELSE text

\* int(text) raises no ValueError: the text is a non-empty run of digits after
\* an optional sign
IsInt(text) ==
    /\ Unsigned(text) # <<>>
    /\ \A i \in 1..Len(Unsigned(text)) : \E d \in 0..9 : Digits[d + 1] = Unsigned(text)[i]

\* the number a run of digits denotes
RECURSIVE DigitsValue(_)
DigitsValue(text) ==
    IF text = <<>> THEN 0
    ELSE 10 * DigitsValue(SubSeq(text, 1, Len(text) - 1))
         + (CHOOSE d \in 0..9 : Digits[d + 1] = text[Len(text)])

\* int(text) of a text int() accepts
int(text) ==
    IF text # <<>> /\ Head(text) = "-" THEN 0 - DigitsValue(Unsigned(text))
    ELSE DigitsValue(Unsigned(text))

Url(query) == [query |-> query, malformed |-> FALSE]

\* domain + start_url as the user gave it: the address of the topic's second page
start_url == Url(<<[key |-> "t", value |-> <<"7">>], [key |-> "start", value |-> <<"1", "5">>]>>)

\* _parse_base_url: the start URL without the pagination parameter
base_url == Url(SelectSeq(start_url.query, LAMBDA q : q.key # page_param))

\* variant: page-style parameters carry the page number itself
get_page_url_NoShift(page_number) ==
    IF page_number <= 0 THEN base_url
    ELSE LET param_value == IF page_param = "start" THEN page_number * posts_per_page
                            ELSE page_number
         IN Url(Append(base_url.query, [key |-> page_param, value |-> str(param_value)]))

\* PaginationManager.get_page_url
get_page_url(page_number) ==
    IF page_number <= 0 THEN base_url
    ELSE LET param_value == IF page_param = "start" THEN page_number * posts_per_page
                            ELSE page_number + 1
         IN Url(Append(base_url.query, [key |-> page_param, value |-> str(param_value)]))

\* variant: the page number is returned without max(0, ...)
extract_page_number_NoClamp(url) ==
    LET values == SelectSeq(url.query, LAMBDA q : q.key = page_param /\ q.value # <<>>)
    IN IF values = <<>> THEN 0
       ELSE IF ~IsInt(values[1].value) THEN 0
       ELSE LET param_value == int(values[1].value)
            IN IF page_param = "start" THEN param_value \div posts_per_page
               ELSE param_value - 1

\* PaginationManager.extract_page_number of a URL urlparse accepts; parse_qs
\* drops the blank values and [0] takes the first of the others
extract_page_number(url) ==
    LET values == SelectSeq(url.query, LAMBDA q : q.key = page_param /\ q.value # <<>>)
    IN IF values = <<>> THEN 0
       ELSE IF ~IsInt(values[1].value) THEN 0
       ELSE LET param_value == int(values[1].value)
                page_number == IF page_param = "start" THEN param_value \div posts_per_page
                               ELSE param_value - 1
            IN IF page_number > 0 THEN page_number ELSE 0

NoUrl == [kind |-> "none", url |-> Url(<<>>)]
Raised == [kind |-> "raise", url |-> Url(<<>>)]

\* the loop of find_next_page over the links: the first link of the wanted page
\* number, made absolute (which leaves its query as it is); a link urlparse
\* rejects before that raises ValueError out of extract_page_number
RECURSIVE scan_links(_, _)
scan_links(links, next_page_number) ==
    IF links = <<>> THEN NoUrl
    ELSE IF Head(links).malformed THEN Raised
    ELSE IF extract_page_number(Head(links)) = next_page_number
         THEN [kind |-> "url", url |-> Head(links)]
    ELSE scan_links(Tail(links), next_page_number)

\* PaginationManager.find_next_page
find_next_page(current_url, links) ==
    IF links = <<>> THEN NoUrl
    ELSE scan_links(links, extract_page_number(current_url) + 1)

\* the hrefs a page's navigation can hold: links to the topic's pages, links
\* with parameter value 0 and -5, one with a value that is no number, and one
\* urlparse rejects
Hrefs ==
    {get_page_url(k) : k \in 0..NumPages}
    \cup {Url(Append(base_url.query, [key |-> page_param, value |-> <<"0">>])),
          Url(Append(base_url.query, [key |-> page_param, value |-> <<"-", "5">>])),
          Url(Append(base_url.query, [key |-> page_param, value |-> <<"a">>])),
          [query |-> <<>>, malformed |-> TRUE]}

\* find_pagination_links: up to two hrefs, duplicates removed, in page order
HrefLists ==
    {<<>>} \cup {<<h>> : h \in Hrefs}
    \cup {<<g, h>> : <<g, h>> \in {x \in Hrefs \X Hrefs : x[1] # x[2]}}

\* the configurations process_url is called with
PageParams == {"start", "page", "p"}
PageSizes == {1, 2, 15}

(***************************************************************************)
(* LinkRepository: pages                                                   *)
(***************************************************************************)
NoPage == [found |-> FALSE, page_number |-> 0]

\* variant: ORDER BY page_number ASC, the lowest page that is done
get_last_processed_page_Lowest(pg) ==
    LET rows == {n \in PageNums : pg[n] = "done"}
    IN IF rows = {} THEN NoPage
       ELSE [found |-> TRUE, page_number |-> CHOOSE n \in rows : \A m \in rows : n <= m]

\* variant: the newest page row whatever its status
get_last_processed_page_AnyStatus(pg) ==
    LET rows == {n \in PageNums : pg[n] # "none"}
    IN IF rows = {} THEN NoPage
       ELSE [found |-> TRUE, page_number |-> CHOOSE n \in rows : \A m \in rows : m <= n]

\* get_last_processed_page: WHERE status = 'done' ORDER BY page_number DESC LIMIT 1
get_last_processed_page(pg) ==
    LET rows == {n \in PageNums : pg[n] = "done"}
    IN IF rows = {} THEN NoPage
       ELSE [found |-> TRUE, page_number |-> CHOOSE n \in rows : \A m \in rows : m <= n]

(***************************************************************************)
(* Specification of crawl sessions: Orchestrator.process_url               *)
(*                                                                         *)
(* A page row is found by its URL; get_page_url gives every page number    *)
(* its own URL, so the rows are kept by page number.  The steps inside     *)
(* process_html are those of the ingestion specification and are one       *)
(* step here.                                                              *)
(***************************************************************************)
MaxSessions == 2     \* crawl sessions per behaviour

notCrawl == <<global_limit, per_host_limit, hostOf, batchVars, statVars, status, proc, orch_pc,
              crashVars, imageVars, ingestVars, storeVars, pathVars>>
crawlConfig == <<page_param, posts_per_page, max_pages>>

\* variant: after a page-level error the loop stays on the page
NextAfterError_Same(n) == n

\* current_page_num += 1 in the except block
NextAfterError(n) == n + 1

\* process_url up to the loop: the resumption point
StartProcessUrl ==
    /\ crawl_pc = "idle"
    /\ LET last_page == get_last_processed_page(pages)
       IN current_page_num' = IF last_page.found THEN last_page.page_number + 1 ELSE 0
    /\ pages_processed' = 0
    /\ fetched' = <<>>
    /\ n_sessions' = n_sessions + 1
    /\ crawl_pc' = "loop"
    /\ UNCHANGED <<crawlConfig, page_url, pagination_links, pages, notCrawl>>

\* if max_pages and pages_processed >= max_pages: break
MaxPagesReached ==
    /\ crawl_pc = "loop"
    /\ max_pages # 0 /\ pages_processed >= max_pages
    /\ crawl_pc' = "returned"
    /\ UNCHANGED <<crawlConfig, current_page_num, pages_processed, page_url,
                   pagination_links, fetched, n_sessions, pages, notCrawl>>

\* page_url = get_page_url(current_page_num); create_page(page_url, current_page_num)
CreatePageRow ==
    /\ crawl_pc = "loop"
    /\ ~(max_pages # 0 /\ pages_processed >= max_pages)
    /\ current_page_num \in PageNums
    /\ page_url' = get_page_url(current_page_num)
    /\ pages' = create_page(pages, current_page_num)
    /\ crawl_pc' = "created"
    /\ UNCHANGED <<crawlConfig, current_page_num, pages_processed, pagination_links,
                   fetched, n_sessions, notCrawl>>

\* update_page_status(page_url, "processing")
MarkProcessing ==
    /\ crawl_pc = "created"
    /\ pages' = update_page_status(pages, current_page_num, "processing")
    /\ crawl_pc' = "fetch"
    /\ UNCHANGED <<crawlConfig, current_page_num, pages_processed, page_url,
                   pagination_links, fetched, n_sessions, notCrawl>>

\* html = fetcher.get_page_html(page_url); pagination_links = find_pagination_links(html)
FetchPage ==
    /\ crawl_pc = "fetch"
    /\ fetched' = Append(fetched, current_page_num)
    /\ pagination_links' \in HrefLists
    /\ crawl_pc' = "process"
    /\ UNCHANGED <<crawlConfig, current_page_num, pages_processed, page_url, n_sessions,
                   pages, notCrawl>>

\* get_page_html raises
FetchFails ==
    /\ crawl_pc = "fetch"
    /\ fetched' = Append(fetched, current_page_num)
    /\ crawl_pc' = "except"
    /\ UNCHANGED <<crawlConfig, current_page_num, pages_processed, page_url,
                   pagination_links, n_sessions, pages, notCrawl>>

\* process_html returns; update_page_status(page_url, "done", blocks_found=...)
ProcessHtmlDone ==
    /\ crawl_pc = "process"
    /\ pages' = update_page_status(pages, current_page_num, "done")
    /\ crawl_pc' = "find_next"
    /\ UNCHANGED <<crawlConfig, current_page_num, pages_processed, page_url,
                   pagination_links, fetched, n_sessions, notCrawl>>

\* process_html raises
ProcessHtmlRaises ==
    /\ crawl_pc = "process"
    /\ crawl_pc' = "except"
    /\ UNCHANGED <<crawlConfig, current_page_num, pages_processed, page_url,
                   pagination_links, fetched, n_sessions, pages, notCrawl>>

\* find_next_page returns: no next page, a next page that does not move forward,
\* or the next page of the loop
NextPage ==
    /\ crawl_pc = "find_next"
    /\ LET next_url == find_next_page(page_url, pagination_links)
           next_page_num == extract_page_number(next_url.url)
       IN /\ next_url.kind # "raise"
          /\ IF next_url.kind = "none" \/ next_page_num <= current_page_num
             THEN /\ crawl_pc' = "returned"
                  /\ UNCHANGED <<current_page_num, pages_processed, pagination_links>>
             ELSE /\ current_page_num' = next_page_num
                  /\ pages_processed' = pages_processed + 1
                  /\ pagination_links' = <<>>
                  /\ crawl_pc' = "loop"
    /\ UNCHANGED <<crawlConfig, page_url, fetched, n_sessions, pages, notCrawl>>

\* find_next_page raises the ValueError of urlparse
NextPageRaises ==
    /\ crawl_pc = "find_next"
    /\ find_next_page(page_url, pagination_links).kind = "raise"
    /\ crawl_pc' = "except"
    /\ UNCHANGED <<crawlConfig, current_page_num, pages_processed, page_url,
                   pagination_links, fetched, n_sessions, pages, notCrawl>>

\* variant: the except block marks the page failed and ends the session
PageError_Aborts ==
    /\ crawl_pc = "except"
    /\ pages' = update_page_status(pages, current_page_num, "failed")
    /\ crawl_pc' = "returned"
    /\ UNCHANGED <<crawlConfig, current_page_num, pages_processed, pagination_links,
                   page_url, fetched, n_sessions, notCrawl>>

\* except Exception: update_page_status(page_url, "failed"); go on with the next number
PageError ==
    /\ crawl_pc = "except"
    /\ pages' = update_page_status(pages, current_page_num, "failed")
    /\ current_page_num' = NextAfterError(current_page_num)
    /\ pages_processed' = pages_processed + 1
    /\ pagination_links' = <<>>
    /\ crawl_pc' = "loop"
    /\ UNCHANGED <<crawlConfig, page_url, fetched, n_sessions, notCrawl>>

\* the process is killed during the crawl
KillCrawl ==
    /\ crawl_pc \in {"loop", "created", "fetch", "process", "find_next", "except"}
    /\ pagination_links' = <<>>
    /\ crawl_pc' = "killed"
    /\ UNCHANGED <<crawlConfig, current_page_num, pages_processed, page_url, fetched,
                   n_sessions, pages, notCrawl>>

\* the next run: Orchestrator.__init__ with _recover_from_crash
NewOrchestrator ==
    /\ crawl_pc \in {"returned", "killed"}
    /\ n_sessions < MaxSessions
    /\ pages' = recover_processing_pages(pages)
    /\ pagination_links' = <<>>
    /\ crawl_pc' = "idle"
    /\ UNCHANGED <<crawlConfig, current_page_num, pages_processed, page_url, fetched,
                   n_sessions, notCrawl>>

InitCrawl ==
    /\ page_param \in PageParams
    /\ posts_per_page \in PageSizes
    /\ page_param = "start" \/ posts_per_page = 15
    /\ max_pages \in 0..NumPages
    /\ crawl_pc = "idle"
    /\ current_page_num = 0 /\ pages_processed = 0
    /\ page_url = Url(<<>>)
    /\ pagination_links = <<>>
    /\ fetched = <<>>
    /\ n_sessions = 0
    /\ SessionIdle
    /\ ImageIdle
    /\ IngestIdle
    /\ StoreIdle
    /\ PathsIdle

NextCrawl ==
    \/ StartProcessUrl
    \/ MaxPagesReached
    \/ CreatePageRow
    \/ MarkProcessing
    \/ FetchPage
    \/ FetchFails
    \/ ProcessHtmlDone
    \/ ProcessHtmlRaises
    \/ NextPage
    \/ NextPageRaises
    \/ PageError
    \/ KillCrawl
    \/ NewOrchestrator

SpecCrawl == InitCrawl /\ [][NextCrawl]_vars

\* the steps of the while loop of process_url: the coroutine is run by the
\* event loop and every call it awaits returns or raises
LoopStep ==
    \/ MaxPagesReached
    \/ CreatePageRow
    \/ MarkProcessing
    \/ FetchPage
    \/ FetchFails
    \/ ProcessHtmlDone
    \/ ProcessHtmlRaises
    \/ NextPage
    \/ NextPageRaises
    \/ PageError

\* one crawl session of a process that is not killed, called as main.py calls
\* it (PAGE_PARAM at its default, posts_per_page=15), without a ceiling or
\* with a ceiling of one page
InitSession ==
    /\ InitCrawl
    /\ page_param = "start" /\ posts_per_page = 15
    /\ max_pages \in {0, 1}

NextSession == StartProcessUrl \/ LoopStep

SpecSession == InitSession /\ [][NextSession]_vars
SpecSessionFair == SpecSession /\ WF_vars(LoopStep)

(***************************************************************************)
(* Properties of the crawl                                                 *)
(***************************************************************************)
\* C11: within one crawl session the page numbers asked of the fetcher are
\* strictly increasing, and when every link of the page's navigation leads to
\* a page number less than or equal to the current one, the step after the
\* page is done ends the loop and fetches nothing.
C11_ForwardProgress ==
    /\ [](\A i \in 1..(Len(fetched) - 1) : fetched[i] < fetched[i + 1])
    /\ [][(/\ crawl_pc = "find_next" /\ crawl_pc' # "killed"
           /\ pagination_links # <<>>
           /\ \A i \in 1..Len(pagination_links) :
                /\ ~pagination_links[i].malformed
                /\ extract_page_number(pagination_links[i]) <= current_page_num)
          => (crawl_pc' = "returned" /\ fetched' = fetched)]_vars

\* the session fetched pages 0 and 1, the navigation of page 1 led back to
\* pages 0 and 1 only, and the loop has ended
C11_Witness ==
    /\ crawl_pc = "returned"
    /\ fetched = <<0, 1>>
    /\ current_page_num = 1
    /\ pagination_links = <<get_page_url(0), get_page_url(1)>>

\* C12: for both kinds of parameter and every page number N the page number
\* extracted from get_page_url(N) is N; the URL of page 0 carries no
\* pagination parameter; with offset-style parameter and page size 15 the
\* URLs of pages 1 and 2 carry the values 15 and 30; and the URL the loop
\* builds extracts back to the loop's page number.
C12_PageUrlRoundTrip ==
    /\ \A N \in 0..NumPages : extract_page_number(get_page_url(N)) = N
    /\ \A i \in 1..Len(get_page_url(0).query) : get_page_url(0).query[i].key # page_param
    /\ (page_param = "start" /\ posts_per_page = 15) =>
         /\ get_page_url(1).query = Append(base_url.query, [key |-> "start", value |-> <<"1", "5">>])
         /\ get_page_url(2).query = Append(base_url.query, [key |-> "start", value |-> <<"3", "0">>])
    /\ crawl_pc \in {"created", "fetch", "process", "find_next", "except"} =>
         extract_page_number(page_url) = current_page_num

\* the loop is about to fetch page 2 of an offset-style topic with page size 15
C12_Witness ==
    /\ crawl_pc = "fetch"
    /\ page_param = "start" /\ posts_per_page = 15
    /\ current_page_num = 2
    /\ page_url.query[Len(page_url.query)] = [key |-> "start", value |-> <<"3", "0">>]

\* the text of an integer as a server writes it into a link
IntText(v) == IF v < 0 THEN <<"-">> \o str(0 - v) ELSE str(v)

\* the URL of the topic with the pagination parameter set to a text
WithParam(text) == Url(Append(base_url.query, [key |-> page_param, value |-> text]))

ParamRange == 31     \* parameter values -ParamRange..ParamRange are tried

\* the largest q with q * d <= v
Floor(v, d) == CHOOSE q \in (0 - ParamRange - 1)..ParamRange : q * d <= v /\ v < (q + 1) * d

\* C28: extract_page_number gives 0 for a URL without the pagination
\* parameter and for a value that is no number; for an integer value v it
\* gives floor(v / posts_per_page) (offset-style) or v - 1 (page-style) when
\* that is positive and 0 otherwise, so never a negative number; and the
\* links of a page's navigation are numbered so.  (The function depends on
\* the state only through page_param and posts_per_page, which a session
\* never changes: its values are compared at the head of the loop.)
C28_PageNumberOfUrl ==
    /\ crawl_pc = "loop" =>
         /\ extract_page_number(base_url) = 0
         /\ \A text \in {<<>>, <<"a">>, <<"1", ".", "5">>, <<"-">>, <<"1", "a">>} :
              extract_page_number(WithParam(text)) = 0
         /\ \A v \in (0 - ParamRange)..ParamRange :
              LET expected == IF page_param = "start" THEN Floor(v, posts_per_page)
                              ELSE v - 1
                  page_number == extract_page_number(WithParam(IntText(v)))
              IN /\ page_number >= 0
                 /\ expected >= 0 => page_number = expected
                 /\ expected < 0 => page_number = 0
                 /\ v <= 0 => page_number = 0
    /\ \A i \in 1..Len(pagination_links) :
         ~pagination_links[i].malformed => extract_page_number(pagination_links[i]) >= 0

\* on page 0 of an offset-style topic with page size 2 the navigation held a
\* link with the value -5 and one with a value that is no number: both count
\* as page 0, no next page was found
C28_Witness ==
    /\ crawl_pc = "returned" /\ current_page_num = 0
    /\ page_param = "start" /\ posts_per_page = 2
    /\ pagination_links = <<WithParam(<<"-", "5">>), WithParam(<<"a">>)>>

\* some link of the list leads to page number n
SomeLinkLeadsTo(links, n) ==
    \E i \in 1..Len(links) : ~links[i].malformed /\ extract_page_number(links[i]) = n

\* C29: when the page is done and find_next_page is applied to its URL and
\* the links of its navigation, it returns a URL only if some link leads to
\* the current page number + 1, and then the first such link of the list, so
\* the returned URL leads to exactly current + 1; it returns none when the
\* list is empty or no link leads to current + 1.
C29_NextPageIsCurrentPlusOne ==
    crawl_pc = "find_next" =>
        LET next == find_next_page(page_url, pagination_links)
            wanted == extract_page_number(page_url) + 1
        IN /\ next.kind = "url" =>
                /\ extract_page_number(next.url) = wanted
                /\ \E i \in 1..Len(pagination_links) :
                     /\ next.url = pagination_links[i]
                     /\ \A j \in 1..(i - 1) :
                          ~SomeLinkLeadsTo(<<pagination_links[j]>>, wanted)
           /\ ~SomeLinkLeadsTo(pagination_links, wanted) => next.kind = "none"

\* what holds when urlparse accepts every link of the list: the first link to
\* current + 1 is returned, and none when there is no such link
NextPageOfParsableLinks ==
    (/\ crawl_pc = "find_next"
     /\ \A i \in 1..Len(pagination_links) : ~pagination_links[i].malformed) =>
        LET next == find_next_page(page_url, pagination_links)
            wanted == extract_page_number(page_url) + 1
        IN /\ next.kind \in {"url", "none"}
           /\ next.kind = "url" <=> SomeLinkLeadsTo(pagination_links, wanted)
           /\ next.kind = "url" =>
                /\ extract_page_number(next.url) = wanted
                /\ \E i \in 1..Len(pagination_links) :
                     /\ next.url = pagination_links[i]
                     /\ \A j \in 1..(i - 1) :
                          extract_page_number(pagination_links[j]) # wanted

\* C30: when fetching or processing page N has raised, the except block sets
\* the row of page N to failed and the loop goes on at its head with page
\* N + 1 (the session does not return); and within a session the page asked of
\* the fetcher after a page that failed is the page with the next number.
C30_PageErrorIsPageLevel ==
    /\ [][(crawl_pc = "except" /\ crawl_pc' # "killed") =>
            /\ pages'[current_page_num] = "failed"
            /\ \A n \in PageNums \ {current_page_num} : pages'[n] = pages[n]
            /\ crawl_pc' = "loop"
            /\ current_page_num' = current_page_num + 1]_vars
    /\ [][(crawl_pc = "loop" /\ crawl_pc' = "created") =>
            /\ page_url' = get_page_url(current_page_num)
            /\ current_page_num' = current_page_num]_vars
    /\ [](\A i \in 1..(Len(fetched) - 1) :
            pages[fetched[i]] = "failed" => fetched[i + 1] = fetched[i] + 1)

\* the fetch of page 0 raised, processing page 1 raised, and the session is
\* processing page 2
C30_Witness ==
    /\ crawl_pc = "process" /\ n_sessions = 1
    /\ fetched = <<0, 1, 2>> /\ current_page_num = 2
    /\ pages[0] = "failed" /\ pages[1] = "failed" /\ pages[2] = "processing"

CrawlWithCeilingTerminates ==
    (crawl_pc = "loop" /\ max_pages # 0 /\ n_sessions = 1)
        ~> (crawl_pc = "returned")

\* C13: a session starts above every page that is done, and either at page 0
\* with no page done or right after a page that is done, whatever the statuses
\* of the other page rows.
C13_ResumeAfterLastDone ==
    [][(crawl_pc = "idle" /\ crawl_pc' = "loop") =>
        /\ \A n \in PageNums : pages[n] = "done" => n < current_page_num'
        /\ IF \E n \in PageNums : pages[n] = "done"
           THEN current_page_num' - 1 \in PageNums /\ pages[current_page_num' - 1] = "done"
           ELSE current_page_num' = 0]_vars

\* the second session has started at page 1: page 0 is done and pages 1 and 2
\* have rows that failed
C13_Witness ==
    /\ crawl_pc = "loop" /\ n_sessions = 2 /\ fetched = <<>>
    /\ current_page_num = 1
    /\ pages[0] = "done" /\ pages[1] = "failed" /\ pages[2] = "failed"

\* C39: every page a session asks of the fetcher has a number above the
\* highest page that is done, and a page row that is failed or new below a
\* done page keeps its status through every step of every session.
C39_NothingBelowLastDone ==
    /\ [][Len(fetched') = Len(fetched) + 1 =>
            \A n \in PageNums : pages[n] = "done" => n < fetched'[Len(fetched')]]_vars
    /\ [][\A n, m \in PageNums :
            (n < m /\ pages[n] \in {"failed", "new"} /\ pages[m] = "done")
                => pages'[n] = pages[n]]_vars

\* the second session has fetched page 2: page 1 is done and page 0, below
\* it, is failed as the first session left it
C39_Witness ==
    /\ n_sessions = 2 /\ fetched = <<2>>
    /\ pages[0] = "failed" /\ pages[1] = "done"

\* C14: the status of a page row changes only from none to new, from new to
\* processing, from processing to done, failed or (by the recovery pass) new;
\* a page that is done keeps that status and is not fetched again.
C14_PageStatusAdvances ==
    /\ [][\A n \in PageNums :
            pages'[n] # pages[n] =>
              <<pages[n], pages'[n]>> \in {<<"none", "new">>, <<"new", "processing">>,
                                           <<"processing", "done">>, <<"processing", "failed">>,
                                           <<"processing", "new">>}]_vars
    /\ [][\A n \in PageNums :
            (pages[n] = "done" /\ fetched' # fetched) => fetched'[Len(fetched')] # n]_vars

\* a page that is done keeps its status as long as the pagination links parse
DoneStaysDoneWithoutRaise ==
    [][\A n \in PageNums :
         (pages[n] = "done" /\ pages'[n] # "done") => crawl_pc = "except"]_vars

(***************************************************************************)
(* Properties of the batch when download_links has returned                *)
(***************************************************************************)
\* the links handed to download_links
BatchLinks == {l \in Links : mem_status[l] # "none"}

\* the last status callback of link l was made with status s
TerminalCallback(l, s) == calls[l] # <<>> /\ calls[l][Len(calls[l])] = s

\* C15: when download_links has returned, every link of the batch whose
\* download did not succeed is persisted as FAILED, not left QUEUED or
\* DOWNLOADING.
C15_FailuresPersisted ==
    batch_pc = "returned" =>
        \A l \in BatchLinks : ~TerminalCallback(l, DONE) => status[l] = FAILED

\* C17: the statistics download_links returns count as done the links whose
\* terminal callback was DONE, as failed those whose terminal callback was
\* FAILED, as pending the others, and the three add up to the total.
C17_StatsCountOutcomes ==
    batch_pc = "returned" =>
        /\ stats.done = Cardinality({l \in BatchLinks : TerminalCallback(l, DONE)})
        /\ stats.failed = Cardinality({l \in BatchLinks : TerminalCallback(l, FAILED)})
        /\ stats.pending = Cardinality({l \in BatchLinks :
                               ~TerminalCallback(l, DONE) /\ ~TerminalCallback(l, FAILED)})
        /\ stats.done + stats.failed + stats.pending = stats.total

\* what the returned statistics are: every link of the batch pending
StatsAllPending ==
    batch_pc = "returned" =>
        stats = [total |-> Cardinality(BatchLinks), done |-> 0, failed |-> 0,
                 pending |-> Cardinality(BatchLinks)]

\* a link whose task returned without an exception and did not succeed is
\* persisted as FAILED
FailedWhenTaskReturned ==
    batch_pc = "returned" =>
        \A l \in BatchLinks :
            (result[l] = "ok" /\ ~TerminalCallback(l, DONE)) => status[l] = FAILED

(***************************************************************************)
(* ImageDownloader.download_link for the links of one batch, which all     *)
(* write into the output directory of their block (specification           *)
(* SpecPaths).  Every link has one attempt (max_retries = 1), no task      *)
(* waits for a gate, and the directory has POSIX semantics: an open file   *)
(* object keeps writing to its inode when the name is replaced.            *)
(***************************************************************************)
NumPathLinks == 2     \* links of the batch
BodyBytes == 2        \* every resource has BodyBytes bytes, delivered one per chunk

PathLinks == 1..NumPathLinks

\* the URLs of the links: hostname and the components of the path
ImageUrls ==
    {[host |-> "h1", path |-> <<"p", "a.jpg">>],
     [host |-> "h2", path |-> <<"q", "a.jpg">>],
     [host |-> "h1", path |-> <<"p", "b.jpg">>],
     [host |-> "h1", path |-> <<"p", "con.txt">>],
     [host |-> "h1", path |-> <<>>],
     [host |-> "h2", path |-> <<>>]}

\* Path(parsed.path).name: the last component of the path, "" when there is none
basename(path) == IF path = <<>> THEN "" ELSE path[Len(path)]

\* fs.sanitize_filename on the names above: an empty name becomes "unnamed",
\* a reserved device name gets a leading underscore, a safe name is kept
sanitize_filename(name) ==
    IF name = "" THEN "unnamed"
    ELSE IF name = "con.txt" THEN "_con.txt"
    ELSE name

\* download_link: filename, synthesized from hash(link.url) when empty
filename_of(url) ==
    LET filename == sanitize_filename(basename(url.path))
    IN  IF filename = "" THEN [image_hash |-> url] ELSE [name |-> filename]

FileNames == {filename_of(u) : u \in ImageUrls}

\* output_path and part_path = output_path + ".part" of a link
output_path(l) == <<filename_of(link_url[l]), FALSE>>
part_path(l) == <<filename_of(link_url[l]), TRUE>>

\* the bytes of the file of that name, NoFile when there is none
FileAt(entries, inodes, path) ==
    IF entries[path] = 0 THEN NoFile ELSE inodes[entries[path]]

\* the bytes the server holds for link l: its own number, BodyBytes times
BodyByte(l) == l

\* f.write(chunk) on a file opened "ab" (at the end of the file) or "wb" (at
\* the position of the file object, which is the number of bytes it wrote)
WriteChunk(bytes, append, pos, byte) ==
    IF append \/ pos = Len(bytes) THEN Append(bytes, byte)
    ELSE IF pos < Len(bytes) THEN [bytes EXCEPT ![pos + 1] = byte]
    ELSE bytes \o [i \in 1..(pos - Len(bytes)) |-> 0] \o <<byte>>

notPaths == <<otherThanImageOrIngest, imageVars, ingestVars, storeVars, crawlVars>>

\* download_link up to the first request: the filename, the DOWNLOADING
\* callback, and download_image's look at the .part file
PathBegin(l) ==
    /\ dl_pc[l] = "waiting"
    /\ dl_status' = [dl_status EXCEPT ![l] = DOWNLOADING]
    /\ dl_resume' = [dl_resume EXCEPT ![l] =
            IF dir_entries[part_path(l)] = 0 THEN 0
            ELSE Len(inode_bytes[dir_entries[part_path(l)]])]
    /\ dl_pc' = [dl_pc EXCEPT ![l] = "request"]
    /\ UNCHANGED <<link_url, dir_entries, inode_bytes, dl_handle, dl_pos>>
    /\ UNCHANGED notPaths

\* the request fails with a ClientError (a broken connection, or 416 for a
\* range the resource does not have): the only attempt is used up, FAILED
PathRequestFails(l) ==
    /\ dl_pc[l] = "request"
    /\ dl_status' = [dl_status EXCEPT ![l] = FAILED]
    /\ dl_pc' = [dl_pc EXCEPT ![l] = "returned"]
    /\ UNCHANGED <<link_url, dir_entries, inode_bytes, dl_resume, dl_handle, dl_pos>>
    /\ UNCHANGED notPaths

\* the request is answered with an image: the .part file is opened, "ab"
\* when resuming and "wb" (created or truncated) otherwise
PathResponseOk(l) ==
    /\ dl_pc[l] = "request"
    /\ dl_resume[l] < BodyBytes
    /\ LET existing == dir_entries[part_path(l)]
           created == Len(inode_bytes) + 1
       IN  IF existing = 0
           THEN /\ inode_bytes' = Append(inode_bytes, <<>>)
                /\ dir_entries' = [dir_entries EXCEPT ![part_path(l)] = created]
                /\ dl_handle' = [dl_handle EXCEPT ![l] = created]
           ELSE /\ inode_bytes' = IF dl_resume[l] > 0 THEN inode_bytes
                                  ELSE [inode_bytes EXCEPT ![existing] = <<>>]
                /\ dl_handle' = [dl_handle EXCEPT ![l] = existing]
                /\ UNCHANGED dir_entries
    /\ dl_pos' = [dl_pos EXCEPT ![l] = dl_resume[l]]
    /\ dl_pc' = [dl_pc EXCEPT ![l] = "streaming"]
    /\ UNCHANGED <<link_url, dl_status, dl_resume>>
    /\ UNCHANGED notPaths

\* one chunk of the body is written to the open file object
PathChunk(l) ==
    /\ dl_pc[l] = "streaming" /\ dl_pos[l] < BodyBytes
    /\ inode_bytes' = [inode_bytes EXCEPT ![dl_handle[l]] =
            WriteChunk(@, dl_resume[l] > 0, dl_pos[l], BodyByte(l))]
    /\ dl_pos' = [dl_pos EXCEPT ![l] = @ + 1]
    /\ UNCHANGED <<link_url, dir_entries, dl_pc, dl_status, dl_resume, dl_handle>>
    /\ UNCHANGED notPaths

\* the connection breaks while the body is streamed: the file is closed, the
\* only attempt is used up, FAILED
PathStreamFails(l) ==
    /\ dl_pc[l] = "streaming"
    /\ dl_handle' = [dl_handle EXCEPT ![l] = 0]
    /\ dl_status' = [dl_status EXCEPT ![l] = FAILED]
    /\ dl_pc' = [dl_pc EXCEPT ![l] = "returned"]
    /\ UNCHANGED <<link_url, dir_entries, inode_bytes, dl_resume, dl_pos>>
    /\ UNCHANGED notPaths

\* the body has ended: the file is closed and os.replace(part_path,
\* output_path) publishes it, DONE; without a .part file of that name
\* os.replace raises FileNotFoundError, "except Exception" returns failure
PathRename(l) ==
    /\ dl_pc[l] = "streaming" /\ dl_pos[l] = BodyBytes
    /\ dl_handle' = [dl_handle EXCEPT ![l] = 0]
    /\ IF dir_entries[part_path(l)] = 0
       THEN /\ dl_status' = [dl_status EXCEPT ![l] = FAILED]
            /\ UNCHANGED dir_entries
       ELSE /\ dl_status' = [dl_status EXCEPT ![l] = DONE]
            /\ dir_entries' = [dir_entries EXCEPT ![output_path(l)] = dir_entries[part_path(l)],
                                                  ![part_path(l)] = 0]
    /\ dl_pc' = [dl_pc EXCEPT ![l] = "returned"]
    /\ UNCHANGED <<link_url, inode_bytes, dl_resume, dl_pos>>
    /\ UNCHANGED notPaths

\* the links of a block have distinct URLs; the directory of the block is new
InitPaths ==
    /\ SessionIdle
    /\ ImageIdle
    /\ IngestIdle
    /\ StoreIdle
    /\ CrawlIdle
    /\ link_url \in {f \in [PathLinks -> ImageUrls] :
                        \A a, b \in PathLinks : a # b => f[a] # f[b]}
    /\ dir_entries = [path \in FileNames \X BOOLEAN |-> 0]
    /\ inode_bytes = <<>>
    /\ dl_pc = [l \in PathLinks |-> "waiting"]
    /\ dl_status = [l \in PathLinks |-> QUEUED]
    /\ dl_resume = [l \in PathLinks |-> 0]
    /\ dl_handle = [l \in PathLinks |-> 0]
    /\ dl_pos = [l \in PathLinks |-> 0]

NextPaths ==
    \E l \in PathLinks :
        \/ PathBegin(l)
        \/ PathRequestFails(l)
        \/ PathResponseOk(l)
        \/ PathChunk(l)
        \/ PathStreamFails(l)
        \/ PathRename(l)

SpecPaths == InitPaths /\ [][NextPaths]_vars

\* the bytes under every name of the directory
DirFiles == [path \in FileNames \X BOOLEAN |-> FileAt(dir_entries, inode_bytes, path)]

\* C25: whenever a link is persisted DONE its final file exists and its .part
\* file does not; and the final files are created and changed only by the
\* rename that ends a successful download, so never by a download that fails.
C25_FinalOnlyByRename ==
    /\ [](\A l \in DOMAIN dl_status :
            dl_status[l] = DONE =>
                /\ dir_entries[output_path(l)] # 0
                /\ dir_entries[part_path(l)] = 0)
    /\ [][(\E path \in FileNames \X {FALSE} : DirFiles'[path] # DirFiles[path]) =>
            \E l \in PathLinks : dl_status[l] # DONE /\ dl_status'[l] = DONE]_vars

\* what holds: links whose URLs give different filenames keep to it
FinalOnlyByRenameOfDistinctNames ==
    (\A a, b \in DOMAIN link_url : a # b => filename_of(link_url[a]) # filename_of(link_url[b]))
    => /\ \A l \in DOMAIN dl_status :
            dl_status[l] = DONE =>
                /\ dir_entries[output_path(l)] # 0
                /\ dir_entries[part_path(l)] = 0
                /\ Len(DirFiles[output_path(l)]) = BodyBytes
       /\ \A l \in DOMAIN dl_status :
            dl_status[l] # DONE => dir_entries[output_path(l)] = 0

\* what holds for one link: download_image returns success with the final
\* file in place and the .part file gone, and only that step sets the final file
OneLinkFinalOnlyByRename ==
    /\ [](img_ret = "success" => (final # NoFile /\ ~part_exists))
    /\ [][final' # final => (img_ret # "success" /\ img_ret' = "success")]_vars

\* C32: a link whose URL has no last path component is downloaded under a
\* filename synthesized from the hash of its URL, and two such links with
\* different URLs are downloaded under different filenames.
C32_EmptyNameIsHashed ==
    \A a, b \in DOMAIN link_url :
        (dl_pc[a] # "waiting" /\ basename(link_url[a].path) = "") =>
            /\ "image_hash" \in DOMAIN filename_of(link_url[a])
            /\ (a # b /\ dl_pc[b] # "waiting" /\ basename(link_url[b].path) = "")
                 => output_path(a) # output_path(b)

\* what holds: a URL with a last path component is downloaded under that
\* component, sanitized
NamedUrlKeepsItsName ==
    \A l \in DOMAIN link_url :
        basename(link_url[l].path) # "" =>
            filename_of(link_url[l]) = [name |-> sanitize_filename(basename(link_url[l].path))]

\* C36: two links of one batch never have the same output path, and two
\* download tasks never have the same .part file open.
C36_DistinctOutputPaths ==
    \A a, b \in DOMAIN link_url :
        a # b =>
            /\ (dl_pc[a] # "waiting" /\ dl_pc[b] # "waiting") => output_path(a) # output_path(b)
            /\ (dl_handle[a] # 0 /\ dl_handle[b] # 0) => part_path(a) # part_path(b)

\* what holds: links with the same output path are links whose URLs end in
\* the same path component, or in none
SamePathOnlyForSameBasename ==
    \A a, b \in DOMAIN link_url :
        output_path(a) = output_path(b) =>
            sanitize_filename(basename(link_url[a].path)) = sanitize_filename(basename(link_url[b].path))

====
